---- MODULE Spec2Model ----
(***************************************************************************)
(* Per-domain conversational session manager (hook useMultiChat) and its   *)
(* callers in pages/Index.tsx.                                             *)
(*                                                                         *)
(* React keeps the session map in a useState cell.  setAircraftStates      *)
(* (updater) only ENQUEUES the updater; the queue is folded, in order,     *)
(* over the last rendered value at the next render.  The updaters are pure *)
(* and nothing but the render reads the queue, so the queue is kept as its *)
(* fold, `queuedStates`.  Every function the hook returns closes over the  *)
(* `aircraftStates` constant of the render it was created in, so an        *)
(* asynchronous operation keeps reading the value rendered when it was     *)
(* CALLED (field `snap` of a call frame).                                  *)
(*                                                                         *)
(* A user is signed in at start (`user`); the early returns on !user are   *)
(* taken by sendMessage after the session has ended, and by a direct call  *)
(* of createConversation, which takes the auth context as an input.  A     *)
(* store request is answered at one instant: the                           *)
(* row set it returns is the table at the moment its answer is delivered.  *)
(*                                                                         *)
(* Date.now() only feeds message ids, which the code never compares; an id *)
(* is its prefix paired with the ordinal of the call that made it.         *)
(*                                                                         *)
(* A message is modelled by the fields the code reads or writes: id, role, *)
(* content, isPending, isTyping, isVoice (an absent optional flag is       *)
(* FALSE).  created_at is never read by the modelled code and is omitted.  *)
(***************************************************************************)
EXTENDS Integers, Sequences, FiniteSets, TLC

VARIABLES
    currentAircraftModel,  \* useState<string>('A320'), as last rendered
    aircraftStates,        \* useState<Record<string, AircraftState>>, as last rendered
    queuedModel,           \* currentAircraftModel with the enqueued setCurrentAircraftModel applied
    queuedStates,          \* aircraftStates with the enqueued updaters applied, in order
    procs,                 \* asynchronous operations started so far (call frames)
    mountLoads,            \* loadConversations calls of the mount effect still awaiting the store
    dbConversations,       \* table `conversations` of the store, newest first
    voiceCount,            \* voice transcript events delivered so far
    voice,                 \* the mounted VoiceEnabledMessageInput: its state and refs
    channels,              \* the calls of connectVoice so far and what each has acquired
    list,                  \* the useMultiChat() of ConversationList: its state and calls
    isVoiceSpeaking,       \* useState(false) of pages/Index.tsx: the speaking indicator
    now,                   \* Date.now(), in milliseconds
    authRateLimiter,       \* lib/validation.ts: new RateLimiter(5, 15 * 60 * 1000)
    registrationRateLimiter,  \* lib/validation.ts: new RateLimiter(3, 60 * 60 * 1000)
    attemptLog,            \* history: the calls of canAttempt so far and what they returned
    user,                  \* useAuth().user of the last render: the signed-in user, or NoUser
    localStorage,          \* localStorage.getItem('briefing_cache'), parsed: the cached briefing or NoCache
    briefing               \* hooks/useBriefingCache.ts: isLoading, isCompleted and the calls of autoFetchBriefing

vars == <<currentAircraftModel, aircraftStates, queuedModel, queuedStates, procs,
          mountLoads, dbConversations, voiceCount, voice, channels, list,
          isVoiceSpeaking, now, authRateLimiter, registrationRateLimiter, attemptLog,
          user,
          localStorage,
          briefing>>

----------------------------------------------------------------------------
(* Bounds *)

MaxOps == 2        \* operations (sends, switches) started in one behaviour
MaxVoice == 1      \* voice transcript events in one behaviour
MaxAppends == 3    \* voice transcript events in one behaviour of SpecAppend
MaxConversationOps == 3   \* direct calls started in one behaviour of SpecConversations
MaxSwitchOps == 3         \* calls (one send, switches) in one behaviour of SpecSwitch
MaxLoadOps == 3           \* calls (list loads, model switches) in one behaviour of SpecLoads
MaxVoiceCalls == 3        \* calls of connectVoice and disconnectVoice in one behaviour
MaxEvents == 2            \* data channel events delivered in one behaviour
MaxTabSwitches == 1       \* switches of the active tab in one behaviour of SpecVoice
MaxListOps == 1           \* calls made from the conversation list in one behaviour of SpecList
MaxChatOps == 1           \* sends made from the chat view in one behaviour of SpecList
MaxSpeakingEvents == 3    \* data channel events in one behaviour of SpecSpeaking
MaxBriefingCalls == 2     \* calls of autoFetchBriefing in one behaviour
MaxMicCalls == 5          \* calls of connectVoice and disconnectVoice in SpecMic
MaxCreateOps == 2         \* calls of sendMessage in SpecCreate
MaxSubmits == 2           \* calls of handleSubmit in one behaviour
MaxSignIns == 7           \* calls of authRateLimiter.canAttempt in one behaviour
MaxSignUps == 5           \* calls of registrationRateLimiter.canAttempt in one behaviour

----------------------------------------------------------------------------
(* Data *)

Domains == {"A320", "A330", "A350"}

NoConversation == 0

\* the accounts of the model, and useAuth().user === null
Users == {"U1", "U2"}
NoUser == "none"

\* the models whose conversations the direct calls of SpecConversations work on
ConversationDomains == {"A320", "A330"}

Contents == {"hello"}

Answers == {"hi there", "say again"}

initialAircraftState ==
    [conversations |-> <<>>, currentConversation |-> NoConversation,
     messages |-> <<>>, isLoading |-> FALSE]

Message(prefix, t, role, content, pending, typing, spoken) ==
    [id |-> <<prefix, t>>, role |-> role, content |-> content,
     isPending |-> pending, isTyping |-> typing, isVoice |-> spoken]

NoMessage == Message("none", 0, "assistant", "", FALSE, FALSE, FALSE)

\* rows of the store at start-up: one earlier A320 conversation with one message
InitialConversations == << [id |-> 1, aircraft_model |-> "A320"] >>

StoredMessages(conversationId) ==
    IF conversationId = 1
    THEN << Message("db", 0, "user", "hello", FALSE, FALSE, FALSE) >>
    ELSE << >>

SelectConversations(db, aircraftModel) ==
    SelectSeq(db, LAMBDA c : c.aircraft_model = aircraftModel)

\* the conversations a caller can name for a model: those listed in its rendered session
SelectConversationIds(aircraftModel) ==
    {aircraftStates[aircraftModel].conversations[i].id :
        i \in 1..Len(aircraftStates[aircraftModel].conversations)}

----------------------------------------------------------------------------
(* Sequence helpers: Array.prototype.map / filter *)

MapSeq(s, F(_)) == [i \in 1..Len(s) |-> F(s[i])]

ConfirmPending(m) == IF m.isPending THEN [m EXCEPT !.isPending = FALSE] ELSE m

NotTyping(m) == ~m.isTyping

NotPending(m) == ~m.isPending

----------------------------------------------------------------------------
(* updateAircraftState / setAircraftStates *)

Fields == {"conversations", "currentConversation", "messages", "isLoading"}

\* object spread {...currentState, ...finalUpdates}
Merge(currentState, finalUpdates) ==
    [f \in Fields |-> IF f \in DOMAIN finalUpdates THEN finalUpdates[f]
                                                   ELSE currentState[f]]

\* a literal partial patch
Patch(aircraftModel, updates) ==
    [kind |-> "patch", aircraftModel |-> aircraftModel, updates |-> updates,
     message |-> NoMessage]

\* the functional update prevState => ({messages: [...prevState.messages, m]})
AppendMessage(aircraftModel, m) ==
    [kind |-> "append", aircraftModel |-> aircraftModel, updates |-> [isLoading |-> FALSE],
     message |-> m]

\* setCurrentAircraftModel(aircraftModel)
SetModel(aircraftModel) ==
    [kind |-> "model", aircraftModel |-> aircraftModel, updates |-> [isLoading |-> FALSE],
     message |-> NoMessage]

\* seeded fault: the functional update is computed from the rendered state, not from prev
FinalUpdatesStale(u, currentState) ==
    IF u.kind = "append"
    THEN [messages |-> Append(aircraftStates[u.aircraftModel].messages, u.message)]
    ELSE u.updates

\* seeded fault: a functional append also ends the loading state
FinalUpdatesIdle(u, currentState) ==
    IF u.kind = "append"
    THEN [messages |-> Append(currentState.messages, u.message), isLoading |-> FALSE]
    ELSE u.updates

\* typeof updates === 'function' ? updates(currentState) : updates
FinalUpdates(u, currentState) ==
    IF u.kind = "append"
    THEN [messages |-> Append(currentState.messages, u.message)]
    ELSE u.updates

\* seeded fault: the new map is built without ...prev
updateAircraftStateNoSpread(prev, u) ==
    IF u.kind = "model" THEN prev
    ELSE [d \in Domains |->
            IF d = u.aircraftModel
            THEN Merge(prev[d], FinalUpdates(u, prev[d]))
            ELSE initialAircraftState]

\* the updater passed to setAircraftStates, applied to prev
updateAircraftState(prev, u) ==
    IF u.kind = "model" THEN prev
    ELSE [prev EXCEPT ![u.aircraftModel] =
             Merge(prev[u.aircraftModel], FinalUpdates(u, prev[u.aircraftModel]))]

RECURSIVE ApplyQueue(_, _)
ApplyQueue(prev, q) ==
    IF q = <<>> THEN prev
    ELSE ApplyQueue(updateAircraftState(prev, Head(q)), Tail(q))

RECURSIVE ApplyModel(_, _)
ApplyModel(prev, q) ==
    IF q = <<>> THEN prev
    ELSE ApplyModel(IF Head(q).kind = "model" THEN Head(q).aircraftModel ELSE prev, Tail(q))

\* the calls updateAircraftState(...) / setCurrentAircraftModel(...) of one step, in order
Enqueue(us) ==
    /\ queuedStates' = ApplyQueue(queuedStates, us)
    /\ queuedModel' = ApplyModel(queuedModel, us)

NoUpdate == UNCHANGED <<queuedModel, queuedStates>>

Rendered ==
    /\ queuedStates = aircraftStates
    /\ queuedModel = currentAircraftModel
    /\ voice.queuedConnected = voice.voiceConnected
    /\ voice.queuedConnecting = voice.connecting

----------------------------------------------------------------------------
(* Call frames of the asynchronous operations *)

\* `content` of sendMessage only travels to the answer service and is not kept.
\* pendingAtCall is history: the ids pending in the timeline when sendMessage was entered.
Proc(kind, pc, aircraftModel, snap, baseMessages, conversationId) ==
    [kind |-> kind, pc |-> pc, aircraftModel |-> aircraftModel, snap |-> snap,
     baseMessages |-> baseMessages, conversationId |-> conversationId, answer |-> "",
     pendingAtCall |-> {}]

PendingIds(messages) == {messages[i].id : i \in {j \in 1..Len(messages) : messages[j].isPending}}

\* the timeline sendMessage finds when it is entered after the updates `us` of the same step
TimelineAfter(us, aircraftModel) == ApplyQueue(queuedStates, us)[aircraftModel].messages

\* the ordinal of the call being started
Self == Len(procs) + 1

Start(pr) ==
    /\ mountLoads = {}         \* the first loads have settled before the user acts
    /\ Rendered                \* the handler the user can trigger belongs to the last render
    /\ procs' = Append(procs, pr)

Goto(p, pc) == procs' = [procs EXCEPT ![p].pc = pc]

userMessage(p, content) == Message("temp", p, "user", content, TRUE, FALSE, FALSE)

typingMessage(p) == Message("typing", p, "assistant", "", FALSE, TRUE, FALSE)

assistantMessage(p, aiResponse) ==
    Message("assistant", p, "assistant", aiResponse, FALSE, FALSE, FALSE)

MaxOf(S) == CHOOSE x \in S : \A y \in S : y <= x

\* insert(...).select().single(): the id of the new row is fresh; it is one more than
\* every id issued so far (the rows at start-up and the rows the calls have inserted)
NewConversationId ==
    1 + MaxOf({Len(InitialConversations)}
              \cup {procs[p].conversationId : p \in DOMAIN procs}
              \cup {list.procs[p].conversationId : p \in DOMAIN list.procs})

\* seeded fault: the new row is not scoped to the model of the call
InsertConversationUnscoped(aircraftModel) ==
    dbConversations' = <<[id |-> NewConversationId, aircraft_model |-> "none"]>>
                          \o dbConversations

InsertConversation(aircraftModel) ==
    dbConversations' = <<[id |-> NewConversationId, aircraft_model |-> aircraftModel]>>
                          \o dbConversations

\* seeded fault: the list load also resets the timeline
loadConversationsClearing(aircraftModel, ok) ==
    IF ok THEN << Patch(aircraftModel,
                        [conversations |-> SelectConversations(dbConversations, aircraftModel),
                         messages |-> <<>>]) >>
    ELSE << >>

\* seeded fault: a failed list load empties the list
loadConversationsResetting(aircraftModel, ok) ==
    IF ok THEN << Patch(aircraftModel,
                        [conversations |-> SelectConversations(dbConversations, aircraftModel)]) >>
    ELSE << Patch(aircraftModel, [conversations |-> <<>>]) >>

\* loadConversations after its select has answered
loadConversations(aircraftModel, ok) ==
    IF ok THEN << Patch(aircraftModel,
                        [conversations |-> SelectConversations(dbConversations, aircraftModel)]) >>
    ELSE << >>

\* seeded fault: a failed load leaves the timeline as it is
loadMessagesKeeping(conversationId, aircraftModel, ok) ==
    IF ok THEN << Patch(aircraftModel, [messages |-> StoredMessages(conversationId),
                                        isLoading |-> FALSE]) >>
    ELSE << Patch(aircraftModel, [isLoading |-> FALSE]) >>

\* seeded fault: a successful load does not clear isLoading
loadMessagesLoading(conversationId, aircraftModel, ok) ==
    IF ok THEN << Patch(aircraftModel, [messages |-> StoredMessages(conversationId)]) >>
    ELSE << Patch(aircraftModel, [messages |-> <<>>, isLoading |-> FALSE]) >>

\* loadMessages after its select has answered; a failure is rethrown to the caller
loadMessages(conversationId, aircraftModel, ok) ==
    IF ok THEN << Patch(aircraftModel, [messages |-> StoredMessages(conversationId),
                                        isLoading |-> FALSE]) >>
    ELSE << Patch(aircraftModel, [messages |-> <<>>, isLoading |-> FALSE]) >>

\* seeded fault: the timeline is cleared when the switch begins
switchConversationBeginClearing(conversationId, aircraftModel) ==
    << Patch(aircraftModel, [isLoading |-> TRUE, currentConversation |-> conversationId,
                             messages |-> <<>>]) >>

\* seeded fault: the conversation switched to is not made current
switchConversationBeginNoCurrent(conversationId, aircraftModel) ==
    << Patch(aircraftModel, [isLoading |-> TRUE]) >>

\* switchConversation up to its await
switchConversationBegin(conversationId, aircraftModel) ==
    << Patch(aircraftModel, [isLoading |-> TRUE, currentConversation |-> conversationId]) >>

\* switchConversation after loadMessages has settled
switchConversationEnd(conversationId, aircraftModel, ok) ==
    loadMessages(conversationId, aircraftModel, ok)
      \o (IF ok THEN << >> ELSE << Patch(aircraftModel, [isLoading |-> FALSE]) >>)

\* seeded fault: the conversation sendMessage has created is not made current
sendMessageCreatedUnset(aircraftModel, targetConversationId) ==
    << >>

\* sendMessage after its createConversation has returned an id
sendMessageCreated(aircraftModel, targetConversationId) ==
    << Patch(aircraftModel, [currentConversation |-> targetConversationId]) >>

\* seeded fault: the answer is dropped when the model of the call is no longer the active one
sendMessageSuccessIfActive(p, aircraftModel, baseMessages, aiResponse) ==
    IF queuedModel = aircraftModel
    THEN << Patch(aircraftModel,
                  [messages |-> Append(MapSeq(baseMessages, ConfirmPending),
                                       assistantMessage(p, aiResponse)),
                   isLoading |-> FALSE]) >>
    ELSE << Patch(aircraftModel, [isLoading |-> FALSE]) >>

\* sendMessage, the try block up to the await of functions.invoke
sendMessageTry(p, aircraftModel, baseMessages) ==
    << Patch(aircraftModel, [isLoading |-> TRUE]),
       Patch(aircraftModel, [messages |-> Append(baseMessages, typingMessage(p))]) >>

\* seeded fault: the pending flags are left as they are
sendMessageSuccessUnconfirmed(p, aircraftModel, baseMessages, aiResponse) ==
    << Patch(aircraftModel,
             [messages |-> Append(baseMessages, assistantMessage(p, aiResponse)),
              isLoading |-> FALSE]) >>

\* seeded fault: the answer is written to the active model instead of the model of the call
sendMessageSuccessOnCurrent(p, aircraftModel, baseMessages, aiResponse) ==
    << Patch(queuedModel,
             [messages |-> Append(MapSeq(baseMessages, ConfirmPending),
                                  assistantMessage(p, aiResponse)),
              isLoading |-> FALSE]) >>

\* seeded fault: the answer is dropped when the call's conversation is no longer the
\* current one of its domain
sendMessageSuccessIfCurrent(p, aircraftModel, baseMessages, aiResponse) ==
    IF queuedStates[aircraftModel].currentConversation = procs[p].conversationId
    THEN << Patch(aircraftModel,
                  [messages |-> Append(MapSeq(baseMessages, ConfirmPending),
                                       assistantMessage(p, aiResponse)),
                   isLoading |-> FALSE]) >>
    ELSE << Patch(aircraftModel, [isLoading |-> FALSE]) >>

\* sendMessage, the try block after a successful answer, up to the await of loadConversations
sendMessageSuccess(p, aircraftModel, baseMessages, aiResponse) ==
    << Patch(aircraftModel,
             [messages |-> Append(MapSeq(baseMessages, ConfirmPending),
                                  assistantMessage(p, aiResponse)),
              isLoading |-> FALSE]) >>

\* seeded fault: the catch block cleans the timeline and neither it nor the finally
\* block writes isLoading
sendMessageCatchLoading(aircraftModel, errorState) ==
    << Patch(aircraftModel,
             [messages |-> MapSeq(SelectSeq(errorState.messages, NotTyping), ConfirmPending)]) >>

\* sendMessage, catch and finally; errorState is the closure's aircraftStates[aircraftModel]
sendMessageCatch(aircraftModel, errorState) ==
    << Patch(aircraftModel,
             [messages |-> MapSeq(SelectSeq(errorState.messages, NotTyping), ConfirmPending),
              isLoading |-> FALSE]),
       Patch(aircraftModel, [isLoading |-> FALSE]) >>

\* handleSendMessage, catch; getCurrentState() is the closure's session
handleSendMessageCatch(aircraftModel, currentState) ==
    << Patch(aircraftModel, [messages |-> SelectSeq(currentState.messages, NotPending)]) >>

----------------------------------------------------------------------------
(* components/VoiceEnabledMessageInput.tsx: the voice input of the active tab.
   Each TabsContent of pages/Index.tsx holds its own instance, mounted while its tab
   is the active one. A call of connectVoice is a channel: what it has acquired lives
   on when the instance that made the call is gone. *)

NoRef == 0      \* a ref holding null; a ref to what channel a acquired holds a

\* useState(false) twice and useRef(null) for pcRef, dcRef, micStreamRef; `message` is
\* useState('') of the text area;
\* `calls` counts the calls of connectVoice and disconnectVoice made so far, `submits`
\* the calls of handleSubmit; `micEnabled` is useState(true)
VoiceInput ==
    [voiceConnected |-> FALSE, connecting |-> FALSE,
     queuedConnected |-> FALSE, queuedConnecting |-> FALSE,
     pcRef |-> NoRef, dcRef |-> NoRef, micStreamRef |-> NoRef,
     calls |-> 0, message |-> "", submits |-> 0, micEnabled |-> TRUE]

\* the locals and closure of one call of connectVoice: onVoiceMessage is the handler of
\* the render the call was made from, which appends to that render's currentAircraftModel
Channel(aircraftModel) ==
    [aircraftModel |-> aircraftModel, pc |-> "session",
     pcOpen |-> FALSE, dcOpen |-> FALSE, micLive |-> FALSE,
     mounted |-> TRUE, reported |-> FALSE, events |-> 0, trackEnabled |-> FALSE]

\* the body of disconnectVoice after its guard: what the refs point to is closed, stopped
Released(v, ch) ==
    [a \in DOMAIN ch |->
        [ch[a] EXCEPT !.dcOpen = @ /\ a # v.dcRef,
                      !.pcOpen = @ /\ a # v.pcRef,
                      !.micLive = @ /\ a # v.pcRef /\ a # v.micStreamRef]]

\* disconnectVoice, as closed over the voiceConnected of the render it belongs to
disconnectVoiceChannels(voiceConnected, v, ch) ==
    IF ~voiceConnected THEN ch ELSE Released(v, ch)

disconnectVoiceInput(voiceConnected, v) ==
    IF ~voiceConnected
    THEN v
    ELSE [v EXCEPT !.voiceConnected = FALSE, !.queuedConnected = FALSE,
                   !.pcRef = NoRef, !.dcRef = NoRef, !.micStreamRef = NoRef]

\* onSpeakingChange?.(false) of disconnectVoice, after its guard
disconnectVoiceSpeaking(voiceConnected, isSpeaking) ==
    IF ~voiceConnected THEN isSpeaking ELSE FALSE

\* useEffect(() => () => disconnectVoice(), []): the cleanup calls the disconnectVoice of
\* the first render, whose voiceConnected is the initial state
Cleanup(v, ch) == disconnectVoiceChannels(VoiceInput.voiceConnected, v, ch)

\* the tab changes: the instance of the old tab is unmounted after its cleanup, and the
\* instance of the new tab is mounted with fresh state and refs
Unmount == [VoiceInput EXCEPT !.calls = voice.calls, !.submits = voice.submits]

Orphaned(ch) == [a \in DOMAIN ch |-> [ch[a] EXCEPT !.mounted = FALSE]]

----------------------------------------------------------------------------
(* React render: the enqueued updaters become the rendered state *)

Render ==
    /\ ~Rendered
    /\ aircraftStates' = queuedStates
    /\ currentAircraftModel' = queuedModel
    /\ voice' = IF queuedModel # currentAircraftModel
                THEN Unmount
                ELSE [voice EXCEPT !.voiceConnected = voice.queuedConnected,
                                   !.connecting = voice.queuedConnecting]
    /\ channels' = IF queuedModel # currentAircraftModel
                   THEN Orphaned(Cleanup(voice, channels))
                   ELSE channels
    /\ UNCHANGED <<queuedModel, queuedStates, procs, mountLoads, dbConversations, voiceCount,
                   list, isVoiceSpeaking, now, authRateLimiter, registrationRateLimiter, attemptLog, user, localStorage, briefing>>

(* useEffect on mount: loadConversations for the three models *)
MountLoadSettles(aircraftModel, ok) ==
    /\ aircraftModel \in mountLoads
    /\ mountLoads' = mountLoads \ {aircraftModel}
    /\ Enqueue(loadConversations(aircraftModel, ok))
    /\ UNCHANGED <<currentAircraftModel, aircraftStates, procs, dbConversations, voiceCount, voice, channels, list, isVoiceSpeaking, now, authRateLimiter, registrationRateLimiter, attemptLog, user, localStorage, briefing>>

----------------------------------------------------------------------------
(* pages/Index.tsx: handleVoiceMessage *)

VoiceTranscripts == {"roger"}

handleVoiceMessage(role, content) ==
    /\ mountLoads = {}         \* a voice session is opened by the user
    /\ voiceCount' = voiceCount + 1
    /\ Enqueue(<< AppendMessage(currentAircraftModel,
                     Message(IF role = "user" THEN "voice-user" ELSE "voice-assistant",
                             voiceCount + 1, role, content, FALSE, FALSE, TRUE)) >>)
    /\ UNCHANGED <<currentAircraftModel, aircraftStates, procs, mountLoads, dbConversations, voice, channels, list, isVoiceSpeaking, now, authRateLimiter, registrationRateLimiter, attemptLog, user, localStorage, briefing>>

----------------------------------------------------------------------------
(* sendMessage(content, aircraftModel) called without currentMessages / conversationId *)

\* seeded fault: the loading flag is raised as soon as the call is entered
sendMessageLoadingFirst(content, aircraftModel) ==
    LET snap == aircraftStates[aircraftModel]
        targetConversationId == snap.currentConversation
        baseMessages == snap.messages
        entered(pc, conversationId) ==
            [Proc("sendMessage", pc, aircraftModel, snap, baseMessages, conversationId)
                EXCEPT !.pendingAtCall = PendingIds(TimelineAfter(<< >>, aircraftModel))]
    IN  /\ IF targetConversationId = NoConversation
           THEN /\ Start(entered(IF user = NoUser THEN "done" ELSE "insert", NoConversation))
                /\ Enqueue(<< Patch(aircraftModel, [isLoading |-> TRUE]) >>)
           ELSE /\ Start(entered(IF user = NoUser THEN "done" ELSE "invoke",
                                 targetConversationId))
                /\ Enqueue(sendMessageTry(Self, aircraftModel, baseMessages))
        /\ UNCHANGED <<currentAircraftModel, aircraftStates, mountLoads, dbConversations, voiceCount, voice, channels, list, isVoiceSpeaking, now, authRateLimiter, registrationRateLimiter, attemptLog, user, localStorage, briefing>>

sendMessage(content, aircraftModel) ==
    LET snap == aircraftStates[aircraftModel]
        targetConversationId == snap.currentConversation
        baseMessages == snap.messages
        entered(pc, conversationId) ==
            [Proc("sendMessage", pc, aircraftModel, snap, baseMessages, conversationId)
                EXCEPT !.pendingAtCall = PendingIds(TimelineAfter(<< >>, aircraftModel))]
    IN  /\ IF user = NoUser
           THEN \* if (!user) return
                /\ Start(entered("done", targetConversationId))
                /\ NoUpdate
           ELSE IF targetConversationId = NoConversation
           THEN /\ Start(entered("insert", NoConversation))
                /\ NoUpdate
           ELSE /\ Start(entered("invoke", targetConversationId))
                /\ Enqueue(sendMessageTry(Self, aircraftModel, baseMessages))
        /\ UNCHANGED <<currentAircraftModel, aircraftStates, mountLoads, dbConversations, voiceCount, voice, channels, list, isVoiceSpeaking, now, authRateLimiter, registrationRateLimiter, attemptLog, user, localStorage, briefing>>

(* pages/Index.tsx: handleSendMessage(message) up to its first await *)
handleSendMessageBegin(message) ==
    LET currentState == aircraftStates[currentAircraftModel]
        updatedMessages == Append(currentState.messages, userMessage(Self, message))
    IN  /\ IF currentState.currentConversation = NoConversation
           THEN /\ Start(Proc("handleSendMessage", "insert", currentAircraftModel, currentState,
                              updatedMessages, NoConversation))
                /\ Enqueue(<< Patch(currentAircraftModel, [messages |-> updatedMessages]) >>)
           ELSE /\ Start([Proc("handleSendMessage", "invoke", currentAircraftModel,
                                 currentState, updatedMessages,
                                 currentState.currentConversation)
                             EXCEPT !.pendingAtCall = PendingIds(TimelineAfter(
                                 << Patch(currentAircraftModel, [messages |-> updatedMessages]) >>,
                                 currentAircraftModel))])
                /\ Enqueue(<< Patch(currentAircraftModel, [messages |-> updatedMessages]) >>
                             \o sendMessageTry(Self, currentAircraftModel, updatedMessages))

(* pages/Index.tsx: handleSendMessage(message), reached from the input's handleSubmit
   with a message that passes its test *)
handleSendMessage(message) ==
        /\ ~aircraftStates[currentAircraftModel].isLoading      \* handleSubmit: !isLoading
        /\ handleSendMessageBegin(message)
        /\ UNCHANGED <<currentAircraftModel, aircraftStates, mountLoads, dbConversations, voiceCount, voice, channels, list, isVoiceSpeaking, now, authRateLimiter, registrationRateLimiter, attemptLog, user, localStorage, briefing>>

(* createConversation: the store answers the insert *)
InsertSettles(p, ok) ==
    LET pr == procs[p] IN
    /\ pr.pc = "insert"
    /\ IF ok
       THEN /\ InsertConversation(pr.aircraftModel)
            /\ procs' = [procs EXCEPT ![p].pc = "list", ![p].conversationId = NewConversationId]
       ELSE \* createConversation returns null: sendMessage throws before its try block,
            \* handleSendMessage only logs
            \* a direct caller of createConversation is handed null
            /\ Goto(p, CASE pr.kind = "sendMessage" -> "rejected"
                         [] pr.kind = "createConversation" -> "null"
                         [] OTHER -> "done")
            /\ UNCHANGED dbConversations
    /\ NoUpdate
    /\ UNCHANGED <<currentAircraftModel, aircraftStates, mountLoads, voiceCount, voice, channels, list, isVoiceSpeaking, now, authRateLimiter, registrationRateLimiter, attemptLog, user, localStorage, briefing>>

(* createConversation: loadConversations settles, the caller continues to its next await *)
ListSettles(p, ok) ==
    LET pr == procs[p] IN
    /\ pr.pc = "list"
    /\ IF pr.kind = "sendMessage"
       THEN /\ Enqueue(loadConversations(pr.aircraftModel, ok)
                        \o sendMessageCreated(pr.aircraftModel, pr.conversationId)
                        \o sendMessageTry(p, pr.aircraftModel, pr.baseMessages))
            /\ Goto(p, "invoke")
       ELSE IF pr.kind = "createConversation"
       THEN \* return data.id
            /\ Enqueue(loadConversations(pr.aircraftModel, ok))
            /\ Goto(p, "done")
       ELSE /\ Enqueue(loadConversations(pr.aircraftModel, ok)
                        \o switchConversationBegin(pr.conversationId, pr.aircraftModel))
            /\ Goto(p, "messages")
    /\ UNCHANGED <<currentAircraftModel, aircraftStates, mountLoads, dbConversations, voiceCount, voice, channels, list, isVoiceSpeaking, now, authRateLimiter, registrationRateLimiter, attemptLog, user, localStorage, briefing>>

(* switchConversation: loadMessages settles; handleSendMessage goes on to sendMessage *)
MessagesSettle(p, ok) ==
    LET pr == procs[p] IN
    /\ pr.pc = "messages"
    /\ IF pr.kind = "handleSendMessage"
       THEN /\ Enqueue(switchConversationEnd(pr.conversationId, pr.aircraftModel, ok)
                        \o sendMessageTry(p, pr.aircraftModel, pr.baseMessages))
            /\ procs' = [procs EXCEPT ![p].pc = "invoke",
                            ![p].pendingAtCall = PendingIds(TimelineAfter(
                                switchConversationEnd(pr.conversationId, pr.aircraftModel, ok),
                                pr.aircraftModel))]
       ELSE IF pr.kind = "loadMessages"
       THEN \* a direct call of loadMessages: the error is rethrown to the caller
            /\ Enqueue(loadMessages(pr.conversationId, pr.aircraftModel, ok))
            /\ Goto(p, IF ok THEN "done" ELSE "rejected")
       ELSE \* switchConversation returns from its try block or from its catch block
            /\ Enqueue(switchConversationEnd(pr.conversationId, pr.aircraftModel, ok))
            /\ Goto(p, IF ok THEN "done" ELSE "caught")
    /\ UNCHANGED <<currentAircraftModel, aircraftStates, mountLoads, dbConversations, voiceCount, voice, channels, list, isVoiceSpeaking, now, authRateLimiter, registrationRateLimiter, attemptLog, user, localStorage, briefing>>

(* supabase.functions.invoke('unified-chat') answers *)
InvokeSucceeds(p, aiResponse) ==
    LET pr == procs[p] IN
    /\ pr.pc = "invoke"
    /\ Enqueue(sendMessageSuccess(p, pr.aircraftModel, pr.baseMessages, aiResponse))
    /\ procs' = [procs EXCEPT ![p].pc = "refresh", ![p].answer = aiResponse]
    /\ UNCHANGED <<currentAircraftModel, aircraftStates, mountLoads, dbConversations, voiceCount, voice, channels, list, isVoiceSpeaking, now, authRateLimiter, registrationRateLimiter, attemptLog, user, localStorage, briefing>>

(* response.error, or no answer in the response: catch, finally, and the caller's catch *)
InvokeFails(p) ==
    LET pr == procs[p] IN
    /\ pr.pc = "invoke"
    /\ Enqueue(sendMessageCatch(pr.aircraftModel, pr.snap)
                \o (IF pr.kind = "handleSendMessage"
                    THEN handleSendMessageCatch(pr.aircraftModel, pr.snap)
                    ELSE << >>))
    /\ Goto(p, "rejected")
    /\ UNCHANGED <<currentAircraftModel, aircraftStates, mountLoads, dbConversations, voiceCount, voice, channels, list, isVoiceSpeaking, now, authRateLimiter, registrationRateLimiter, attemptLog, user, localStorage, briefing>>

(* the conversation list refresh at the end of the try block settles; finally *)
RefreshSettles(p, ok) ==
    LET pr == procs[p] IN
    /\ pr.pc = "refresh"
    /\ Enqueue(loadConversations(pr.aircraftModel, ok)
                \o << Patch(pr.aircraftModel, [isLoading |-> FALSE]) >>)
    /\ Goto(p, "done")
    /\ UNCHANGED <<currentAircraftModel, aircraftStates, mountLoads, dbConversations, voiceCount, voice, channels, list, isVoiceSpeaking, now, authRateLimiter, registrationRateLimiter, attemptLog, user, localStorage, briefing>>

----------------------------------------------------------------------------
(* switchConversation(conversationId, aircraftModel) *)

switchConversation(conversationId, aircraftModel) ==
    /\ Start(Proc("switchConversation", "messages", aircraftModel, aircraftStates[aircraftModel],
                  <<>>, conversationId))
    /\ Enqueue(switchConversationBegin(conversationId, aircraftModel))
    /\ UNCHANGED <<currentAircraftModel, aircraftStates, mountLoads, dbConversations, voiceCount, voice, channels, list, isVoiceSpeaking, now, authRateLimiter, registrationRateLimiter, attemptLog, user, localStorage, briefing>>

(* switchAircraftModel(aircraftModel) *)
switchAircraftModel(aircraftModel) ==
    LET state == aircraftStates[aircraftModel] IN
    /\ aircraftModel # currentAircraftModel     \* Tabs onValueChange: another tab was chosen
    /\ Start(Proc("switchAircraftModel",
                  IF Len(state.conversations) = 0 THEN "conversations" ELSE "done",
                  aircraftModel, state, <<>>, NoConversation))
    /\ Enqueue(<< SetModel(aircraftModel) >>)
    /\ UNCHANGED <<currentAircraftModel, aircraftStates, mountLoads, dbConversations, voiceCount, voice, channels, list, isVoiceSpeaking, now, authRateLimiter, registrationRateLimiter, attemptLog, user, localStorage, briefing>>

(* an awaited loadConversations settles and its caller returns; a direct call of
   loadConversations returns from its error branch or from its end *)
ConversationsSettle(p, ok) ==
    LET pr == procs[p] IN
    /\ pr.pc = "conversations"
    /\ Enqueue(loadConversations(pr.aircraftModel, ok))
    /\ Goto(p, IF pr.kind = "loadConversations" /\ ~ok THEN "logged" ELSE "done")
    /\ UNCHANGED <<currentAircraftModel, aircraftStates, mountLoads, dbConversations, voiceCount, voice, channels, list, isVoiceSpeaking, now, authRateLimiter, registrationRateLimiter, attemptLog, user, localStorage, briefing>>

----------------------------------------------------------------------------
(* Direct calls of the functions the hook returns *)

\* the ids createConversation has returned to its caller for a model
ReturnedIds(aircraftModel) ==
    {procs[p].conversationId :
        p \in {q \in DOMAIN procs : /\ procs[q].kind = "createConversation"
                                    /\ procs[q].pc = "done"
                                    /\ procs[q].aircraftModel = aircraftModel}}

\* the conversations a caller can name: those listed and those it was handed
KnownConversationIds(aircraftModel) ==
    SelectConversationIds(aircraftModel) \cup ReturnedIds(aircraftModel)

(* createConversation(title, aircraftModel); signedIn: the auth context of the call
   holds a user *)
createConversation(aircraftModel, signedIn) ==
    /\ Start(Proc("createConversation", IF signedIn THEN "insert" ELSE "null", aircraftModel,
                  aircraftStates[aircraftModel], <<>>, NoConversation))
    /\ NoUpdate
    /\ UNCHANGED <<currentAircraftModel, aircraftStates, mountLoads, dbConversations, voiceCount, voice, channels, list, isVoiceSpeaking, now, authRateLimiter, registrationRateLimiter, attemptLog, user, localStorage, briefing>>

(* deleteConversation(conversationId, aircraftModel) up to the await of the delete *)
deleteConversation(conversationId, aircraftModel) ==
    /\ Start(Proc("deleteConversation", "delete", aircraftModel,
                  aircraftStates[aircraftModel], <<>>, conversationId))
    /\ NoUpdate
    /\ UNCHANGED <<currentAircraftModel, aircraftStates, mountLoads, dbConversations, voiceCount, voice, channels, list, isVoiceSpeaking, now, authRateLimiter, registrationRateLimiter, attemptLog, user, localStorage, briefing>>

\* deleteConversation after a successful delete; currentState is the closure's session
deleteConversationClear(conversationId, currentState, aircraftModel) ==
    IF currentState.currentConversation = conversationId
    THEN << Patch(aircraftModel, [currentConversation |-> NoConversation, messages |-> <<>>]) >>
    ELSE << >>

(* the store answers the delete; on success the call goes on to loadConversations *)
DeleteSettles(p, ok) ==
    LET pr == procs[p] IN
    /\ pr.pc = "delete"
    /\ IF ok
       THEN /\ dbConversations' =
                  SelectSeq(dbConversations, LAMBDA c : c.id # pr.conversationId)
            /\ Enqueue(deleteConversationClear(pr.conversationId, pr.snap, pr.aircraftModel))
            /\ Goto(p, "conversations")
       ELSE /\ Goto(p, "logged")
            /\ NoUpdate
            /\ UNCHANGED dbConversations
    /\ UNCHANGED <<currentAircraftModel, aircraftStates, mountLoads, voiceCount, voice, channels, list, isVoiceSpeaking, now, authRateLimiter, registrationRateLimiter, attemptLog, user, localStorage, briefing>>

(* loadConversations(aircraftModel) called directly *)
loadConversationsCall(aircraftModel) ==
    /\ Start(Proc("loadConversations", "conversations", aircraftModel,
                  aircraftStates[aircraftModel], <<>>, NoConversation))
    /\ NoUpdate
    /\ UNCHANGED <<currentAircraftModel, aircraftStates, mountLoads, dbConversations, voiceCount, voice, channels, list, isVoiceSpeaking, now, authRateLimiter, registrationRateLimiter, attemptLog, user, localStorage, briefing>>

(* loadMessages(conversationId, aircraftModel) called directly *)
loadMessagesCall(conversationId, aircraftModel) ==
    /\ Start(Proc("loadMessages", "messages", aircraftModel,
                  aircraftStates[aircraftModel], <<>>, conversationId))
    /\ NoUpdate
    /\ UNCHANGED <<currentAircraftModel, aircraftStates, mountLoads, dbConversations, voiceCount, voice, channels, list, isVoiceSpeaking, now, authRateLimiter, registrationRateLimiter, attemptLog, user, localStorage, briefing>>

----------------------------------------------------------------------------
(* components/VoiceEnabledMessageInput.tsx: connectVoice, disconnectVoice, dc.onmessage *)

Hook == <<currentAircraftModel, aircraftStates, queuedModel, queuedStates, procs,
          mountLoads, dbConversations>>

\* connectVoice up to its first await; the click is flushed before the next event
connectVoice ==
    /\ mountLoads = {}
    /\ Rendered
    /\ IF voice.voiceConnected \/ voice.connecting
       THEN /\ voice' = [voice EXCEPT !.calls = @ + 1]
            /\ UNCHANGED channels
       ELSE /\ voice' = [voice EXCEPT !.calls = @ + 1,
                                      !.connecting = TRUE, !.queuedConnecting = TRUE]
            /\ channels' = Append(channels, Channel(currentAircraftModel))
    /\ UNCHANGED <<Hook, voiceCount, list, isVoiceSpeaking, now, authRateLimiter, registrationRateLimiter, attemptLog, user, localStorage, briefing>>

\* a state or ref write of a call whose instance is unmounted has no effect
Written(a, v) == IF channels[a].mounted THEN v ELSE voice

\* connectVoice, catch and finally: a toast, and setConnecting(false)
connectVoiceCatch(a) ==
    /\ channels' = [channels EXCEPT ![a].pc = "failed", ![a].reported = TRUE]
    /\ voice' = Written(a, [voice EXCEPT !.queuedConnecting = FALSE])

\* supabase.functions.invoke(sessionEndpoint) answers; with a client secret the peer
\* connection and the data channel are created, then getUserMedia is awaited
SessionSettles(a, ok) ==
    /\ a \in DOMAIN channels
    /\ channels[a].pc = "session"
    /\ IF ok
       THEN /\ channels' = [channels EXCEPT ![a].pc = "mic",
                                ![a].pcOpen = TRUE, ![a].dcOpen = TRUE]
            /\ voice' = Written(a, [voice EXCEPT !.pcRef = a, !.dcRef = a])
       ELSE connectVoiceCatch(a)
    /\ UNCHANGED <<Hook, voiceCount, list, isVoiceSpeaking, now, authRateLimiter, registrationRateLimiter, attemptLog, user, localStorage, briefing>>

\* getUserMedia settles; with a stream its tracks are added, the offer is made and posted
MicSettles(a, ok) ==
    /\ a \in DOMAIN channels
    /\ channels[a].pc = "mic"
    /\ IF ok
       THEN \* the track of a new stream is enabled
            /\ channels' = [channels EXCEPT ![a].pc = "sdp", ![a].micLive = TRUE,
                                            ![a].trackEnabled = TRUE]
            /\ voice' = Written(a, [voice EXCEPT !.micStreamRef = a])
       ELSE connectVoiceCatch(a)
    /\ UNCHANGED <<Hook, voiceCount, list, isVoiceSpeaking, now, authRateLimiter, registrationRateLimiter, attemptLog, user, localStorage, briefing>>

\* the SDP exchange settles; with an answer setVoiceConnected(true), then finally
SdpSettles(a, ok) ==
    /\ a \in DOMAIN channels
    /\ channels[a].pc = "sdp"
    /\ IF ok
       THEN /\ channels' = [channels EXCEPT ![a].pc = "done"]
            /\ voice' = Written(a, [voice EXCEPT !.queuedConnected = TRUE,
                                                 !.queuedConnecting = FALSE])
       ELSE connectVoiceCatch(a)
    /\ UNCHANGED <<Hook, voiceCount, list, isVoiceSpeaking, now, authRateLimiter, registrationRateLimiter, attemptLog, user, localStorage, briefing>>

\* disconnectVoice, called from the last render
disconnectVoice ==
    /\ mountLoads = {}
    /\ Rendered
    /\ channels' = disconnectVoiceChannels(voice.voiceConnected, voice, channels)
    /\ voice' = [disconnectVoiceInput(voice.voiceConnected, voice) EXCEPT !.calls = @ + 1]
    /\ isVoiceSpeaking' = disconnectVoiceSpeaking(voice.voiceConnected, isVoiceSpeaking)
    /\ UNCHANGED <<Hook, voiceCount, list, now, authRateLimiter, registrationRateLimiter, attemptLog, user, localStorage, briefing>>

\* toggleMic, from the button shown while voiceConnected: the tracks of the stream
\* micStreamRef holds are set to !micEnabled, then setMicEnabled(!micEnabled)
toggleMic ==
    /\ mountLoads = {}
    /\ Rendered
    /\ voice.voiceConnected
    /\ IF voice.micStreamRef # NoRef
       THEN /\ channels' = [channels EXCEPT
                                ![voice.micStreamRef].trackEnabled = ~voice.micEnabled]
            /\ voice' = [voice EXCEPT !.micEnabled = ~voice.micEnabled]
       ELSE UNCHANGED <<channels, voice>>
    /\ UNCHANGED <<Hook, voiceCount, list, isVoiceSpeaking, now, authRateLimiter,
                   registrationRateLimiter, attemptLog, user, localStorage, briefing>>

\* the events of the data channel
EventTypes == {"response.audio_transcript.done",
               "conversation.item.input_audio_transcription.completed",
               "response.done"}

EventTranscripts == {"roger", " ", ""}

\* the events dc.onmessage answers with onSpeakingChange
SpeakingEventTypes == {"response.created", "response.audio.delta", "response.done"}

\* the indicator after dc.onmessage has handled an event of the type
onSpeakingChange(type, isSpeaking) ==
    IF type \in {"response.audio.delta", "response.created"} THEN TRUE
    ELSE IF type = "response.done" THEN FALSE
    ELSE isSpeaking

\* String.prototype.trim on the strings of the model
trim(transcript) ==
    IF transcript = " " THEN ""
    ELSE IF transcript = " hello " THEN "hello"
    ELSE transcript

\* the role a transcript event is handed to onVoiceMessage with, "" when it is not
RoleOf(type, transcript) ==
    IF transcript = "" \/ trim(transcript) = "" THEN ""
    ELSE IF type = "response.audio_transcript.done" THEN "assistant"
    ELSE IF type = "conversation.item.input_audio_transcription.completed" THEN "user"
    ELSE ""

\* pages/Index.tsx handleVoiceMessage of the render whose currentAircraftModel is given
voiceMessageAppend(aircraftModel, role, content) ==
    << AppendMessage(aircraftModel,
           Message(IF role = "user" THEN "voice-user" ELSE "voice-assistant",
                   voiceCount + 1, role, content, FALSE, FALSE, TRUE)) >>

\* seeded fault: the handler is the one of the latest render
dcOnMessageLatest(a, type, transcript) ==
    /\ a \in DOMAIN channels
    /\ channels[a].pc = "done"
    /\ channels[a].dcOpen
    /\ channels' = [channels EXCEPT ![a].events = @ + 1]
    /\ IF RoleOf(type, transcript) # ""
       THEN /\ Enqueue(voiceMessageAppend(currentAircraftModel,
                                          RoleOf(type, transcript), transcript))
            /\ voiceCount' = voiceCount + 1
       ELSE NoUpdate /\ UNCHANGED voiceCount
    /\ isVoiceSpeaking' = onSpeakingChange(type, isVoiceSpeaking)
    /\ UNCHANGED <<currentAircraftModel, aircraftStates, procs, mountLoads, dbConversations,
                   voice, list, now, authRateLimiter, registrationRateLimiter, attemptLog, user, localStorage, briefing>>

\* dc.onmessage of channel a: an event arrives on the open data channel
dcOnMessage(a, type, transcript) ==
    /\ a \in DOMAIN channels
    /\ channels[a].pc = "done"
    /\ channels[a].dcOpen
    /\ channels' = [channels EXCEPT ![a].events = @ + 1]
    /\ IF RoleOf(type, transcript) # ""
       THEN /\ Enqueue(voiceMessageAppend(channels[a].aircraftModel,
                                          RoleOf(type, transcript), transcript))
            /\ voiceCount' = voiceCount + 1
       ELSE NoUpdate /\ UNCHANGED voiceCount
    /\ isVoiceSpeaking' = onSpeakingChange(type, isVoiceSpeaking)
    /\ UNCHANGED <<currentAircraftModel, aircraftStates, procs, mountLoads, dbConversations,
                   voice, list, now, authRateLimiter, registrationRateLimiter, attemptLog, user, localStorage, briefing>>

\* the data channel of channel a is closed from outside (the remote end ends the session,
\* or the connection is lost): connectVoice registers dc.onopen and dc.onmessage and no
\* handler for the close, so no state and no ref changes
dcOnClose(a) ==
    /\ a \in DOMAIN channels
    /\ channels[a].pc = "done"
    /\ channels[a].dcOpen
    /\ channels' = [channels EXCEPT ![a].dcOpen = FALSE]
    /\ UNCHANGED <<Hook, voiceCount, voice, list, isVoiceSpeaking, now, authRateLimiter, registrationRateLimiter, attemptLog, user, localStorage, briefing>>

----------------------------------------------------------------------------
(* components/VoiceEnabledMessageInput.tsx: the text area and handleSubmit *)

\* what the user can have typed
InputTexts == {"hello", " hello ", " ", ""}

\* seeded fault: the test is made on the text as typed
canSubmitUntrimmed(message, isLoading) == message # "" /\ ~isLoading

\* message.trim() && !isLoading && !disabled; Index passes no `disabled`
canSubmit(message, isLoading) == trim(message) # "" /\ ~isLoading

\* onChange of the text area, which is disabled while isLoading
setMessage(text) ==
    /\ mountLoads = {}
    /\ Rendered
    /\ ~aircraftStates[currentAircraftModel].isLoading
    /\ text # voice.message
    /\ voice' = [voice EXCEPT !.message = text]
    /\ UNCHANGED <<Hook, voiceCount, channels, list, isVoiceSpeaking, now, authRateLimiter,
                   registrationRateLimiter, attemptLog, user, localStorage, briefing>>

\* handleSubmit: the form is submitted, or Enter is pressed in the text area; isLoading
\* is the prop of the tab's input, aircraftStates[tab].isLoading of the last render
handleSubmit ==
    /\ mountLoads = {}
    /\ Rendered
    /\ IF canSubmit(voice.message, aircraftStates[currentAircraftModel].isLoading)
       THEN /\ handleSendMessageBegin(trim(voice.message))
            /\ voice' = [voice EXCEPT !.message = "", !.submits = @ + 1]
       ELSE /\ voice' = [voice EXCEPT !.submits = @ + 1]
            /\ NoUpdate
            /\ UNCHANGED procs
    /\ UNCHANGED <<currentAircraftModel, aircraftStates, mountLoads, dbConversations, voiceCount,
                   channels, list, isVoiceSpeaking, now, authRateLimiter,
                   registrationRateLimiter, attemptLog, user, localStorage, briefing>>

----------------------------------------------------------------------------
(* components/ConversationList.tsx: the list calls useMultiChat() itself, so it holds a
   state of its own, with its own mount effect and its own calls. The state is kept with
   the list's updates applied; its handlers are called from its last render. *)

ListHook ==
    [currentAircraftModel |-> "A320",
     aircraftStates |-> [d \in Domains |-> initialAircraftState],
     mountLoads |-> Domains,
     procs |-> <<>>]

Others == <<currentAircraftModel, aircraftStates, queuedModel, queuedStates, procs,
            mountLoads, voiceCount, voice, channels, isVoiceSpeaking, now, authRateLimiter, registrationRateLimiter, attemptLog, user, localStorage, briefing>>

\* updateAircraftState of the list's hook
ListEnqueue(l, us) == [l EXCEPT !.aircraftStates = ApplyQueue(@, us)]

ListStart(l, pr) == [l EXCEPT !.procs = Append(@, pr)]

ListGoto(l, p, pc) == [l EXCEPT !.procs[p].pc = pc]

\* the conversations the list shows for a model
ListedConversationIds(aircraftModel) ==
    {list.aircraftStates[aircraftModel].conversations[i].id :
        i \in DOMAIN list.aircraftStates[aircraftModel].conversations}

(* the mount effect of the list's hook *)
ListMountLoadSettles(aircraftModel, ok) ==
    /\ aircraftModel \in list.mountLoads
    /\ list' = ListEnqueue([list EXCEPT !.mountLoads = @ \ {aircraftModel}],
                           loadConversations(aircraftModel, ok))
    /\ UNCHANGED <<Others, dbConversations>>

(* handleSwitchConversation(id, conversationAircraftModel): switchAircraftModel of the
   list's hook when the model differs (its list is not empty, the conversation is in
   it), the delay, then switchConversation up to the await of loadMessages *)
handleSwitchConversation(id, conversationAircraftModel) ==
    /\ list.mountLoads = {}
    /\ id \in ListedConversationIds(conversationAircraftModel)
    /\ list' = ListEnqueue(
                  ListStart([list EXCEPT !.currentAircraftModel = conversationAircraftModel],
                            Proc("handleSwitchConversation", "messages",
                                 conversationAircraftModel,
                                 list.aircraftStates[conversationAircraftModel], <<>>, id)),
                  switchConversationBegin(id, conversationAircraftModel))
    /\ UNCHANGED <<Others, dbConversations>>

(* handleCreateConversation: createConversation(title, currentAircraftModel) *)
handleCreateConversation ==
    /\ list.mountLoads = {}
    /\ list' = ListStart(list, Proc("handleCreateConversation", "insert",
                                    list.currentAircraftModel,
                                    list.aircraftStates[list.currentAircraftModel],
                                    <<>>, NoConversation))
    /\ UNCHANGED <<Others, dbConversations>>

(* handleDeleteConversation(id, conversationAircraftModel): deleteConversation *)
handleDeleteConversation(id, conversationAircraftModel) ==
    /\ list.mountLoads = {}
    /\ id \in ListedConversationIds(conversationAircraftModel)
    /\ list' = ListStart(list, Proc("handleDeleteConversation", "delete",
                                    conversationAircraftModel,
                                    list.aircraftStates[conversationAircraftModel],
                                    <<>>, id))
    /\ UNCHANGED <<Others, dbConversations>>

(* createConversation of the list's hook: the store answers the insert *)
ListInsertSettles(p, ok) ==
    /\ p \in DOMAIN list.procs
    /\ list.procs[p].pc = "insert"
    /\ IF ok
       THEN /\ InsertConversation(list.procs[p].aircraftModel)
            /\ list' = [list EXCEPT !.procs[p].pc = "list",
                                    !.procs[p].conversationId = NewConversationId]
       ELSE /\ list' = ListGoto(list, p, "null")
            /\ UNCHANGED dbConversations
    /\ UNCHANGED Others

(* its loadConversations settles, the id is returned and switchConversation is called *)
ListListSettles(p, ok) ==
    LET pr == list.procs[p] IN
    /\ p \in DOMAIN list.procs
    /\ pr.pc = "list"
    /\ list' = ListEnqueue(ListGoto(list, p, "messages"),
                           loadConversations(pr.aircraftModel, ok)
                             \o switchConversationBegin(pr.conversationId, pr.aircraftModel))
    /\ UNCHANGED <<Others, dbConversations>>

(* loadMessages of the list's hook settles; switchConversation returns *)
ListMessagesSettle(p, ok) ==
    LET pr == list.procs[p] IN
    /\ p \in DOMAIN list.procs
    /\ pr.pc = "messages"
    /\ list' = ListEnqueue(ListGoto(list, p, IF ok THEN "done" ELSE "caught"),
                           switchConversationEnd(pr.conversationId, pr.aircraftModel, ok))
    /\ UNCHANGED <<Others, dbConversations>>

(* the store answers the delete of the list's hook *)
ListDeleteSettles(p, ok) ==
    LET pr == list.procs[p] IN
    /\ p \in DOMAIN list.procs
    /\ pr.pc = "delete"
    /\ IF ok
       THEN /\ dbConversations' =
                  SelectSeq(dbConversations, LAMBDA c : c.id # pr.conversationId)
            /\ list' = ListEnqueue(ListGoto(list, p, "conversations"),
                           deleteConversationClear(pr.conversationId, pr.snap,
                                                   pr.aircraftModel))
       ELSE /\ list' = ListGoto(list, p, "logged")
            /\ UNCHANGED dbConversations
    /\ UNCHANGED Others

(* the loadConversations that ends deleteConversation settles *)
ListConversationsSettle(p, ok) ==
    LET pr == list.procs[p] IN
    /\ p \in DOMAIN list.procs
    /\ pr.pc = "conversations"
    /\ list' = ListEnqueue(ListGoto(list, p, "done"), loadConversations(pr.aircraftModel, ok))
    /\ UNCHANGED <<Others, dbConversations>>

----------------------------------------------------------------------------
(* hooks/useBriefingCache.ts: the briefing cache in localStorage, and autoFetchBriefing *)

CACHE_DURATION == 24 * 60 * 60 * 1000

\* localStorage without the key 'briefing_cache'
NoCache ==
    [present |-> FALSE, flightPlan |-> "", notamAnalysis |-> "", timestamp |-> 0,
     userId |-> NoUser]

\* the BriefingCache autoFetchBriefing stores
BriefingCache(flightPlan, notamAnalysis, timestamp, userId) ==
    [present |-> TRUE, flightPlan |-> flightPlan, notamAnalysis |-> notamAnalysis,
     timestamp |-> timestamp, userId |-> userId]

\* useState(false) twice; `calls` are the calls of autoFetchBriefing made so far
BriefingCacheHook == [isLoading |-> FALSE, isCompleted |-> FALSE, calls |-> << >>]

\* the instants at which something happens
BriefingTimes == {0, CACHE_DURATION - 1, CACHE_DURATION}

\* what 'unified-chat' returns: an error, an answer, or a response without an answer
BriefingOutcomes == {"error", "answer", "empty"}

\* the service answers for the account of the session
FlightPlanOf(userId) == IF userId = "U1" THEN "flight plan of U1" ELSE "flight plan of U2"
NotamsOf(userId) == IF userId = "U1" THEN "NOTAMs of U1" ELSE "NOTAMs of U2"

\* response?.data?.answer || '...'
flightPlanData(outcome, userId) ==
    IF outcome = "answer" THEN FlightPlanOf(userId) ELSE "No flight plan data available"
notamAnalysisData(outcome, userId) ==
    IF outcome = "answer" THEN NotamsOf(userId) ELSE "No NOTAM analysis available"

\* checkCacheStatus: the value it returns and sets isCompleted to
checkCacheStatus(cache, t) == cache.present /\ t - cache.timestamp < CACHE_DURATION

\* getCachedBriefing: the two texts of a valid entry, or null
NoBriefing == << >>
getCachedBriefing(cache, t) ==
    IF cache.present /\ t - cache.timestamp < CACHE_DURATION
    THEN <<cache.flightPlan, cache.notamAnalysis>>
    ELSE NoBriefing

\* seeded fault: the catch block stores placeholder data
autoFetchBriefingCatchPlaceholder(cache, userId, t) ==
    BriefingCache("No flight plan data available", "No NOTAM analysis available", t, userId)

\* the cache after the catch block of autoFetchBriefing: nothing is stored
autoFetchBriefingCatch(cache, userId, t) == cache

\* autoFetchBriefing(userId) up to its first await, on the hook state b
autoFetchBriefing(b, cache, userId) ==
    IF checkCacheStatus(cache, now)
    THEN [b EXCEPT !.isCompleted = TRUE,
                   !.calls = Append(@, [userId |-> userId, pc |-> "cached", flightPlan |-> ""])]
    ELSE [b EXCEPT !.isCompleted = FALSE, !.isLoading = TRUE,
                   !.calls = Append(@, [userId |-> userId, pc |-> "flightPlan",
                                        flightPlan |-> ""])]

BriefingOthers == <<currentAircraftModel, aircraftStates, queuedModel, queuedStates, procs,
                    mountLoads, dbConversations, voiceCount, voice, channels, list,
                    isVoiceSpeaking, authRateLimiter, registrationRateLimiter, attemptLog>>

\* pages/Index.tsx: useEffect(..., [user, loading, autoFetchBriefing]); autoFetchBriefing
\* is a new function in every render, so the effect runs after every render
IndexBriefingEffect ==
    /\ user # NoUser
    /\ briefing' = autoFetchBriefing(briefing, localStorage, user)
    /\ UNCHANGED <<BriefingOthers, now, user, localStorage>>

\* pages/Index.tsx: the briefing button, disabled while briefingLoading: clearCache(),
\* then autoFetchBriefing(user.id)
refreshBriefing ==
    /\ user # NoUser
    /\ ~briefing.isLoading
    /\ localStorage' = NoCache
    /\ briefing' = autoFetchBriefing([briefing EXCEPT !.isCompleted = FALSE], NoCache, user)
    /\ UNCHANGED <<BriefingOthers, now, user>>

\* catch and finally of autoFetchBriefing
autoFetchBriefingFailed(f) ==
    /\ localStorage' = autoFetchBriefingCatch(localStorage, briefing.calls[f].userId, now)
    /\ briefing' = [briefing EXCEPT !.isCompleted = FALSE, !.isLoading = FALSE,
                                    !.calls[f].pc = "failed"]

\* the first request (flight plan) settles; the second is sent
FlightPlanSettles(f, outcome) ==
    /\ f \in DOMAIN briefing.calls
    /\ briefing.calls[f].pc = "flightPlan"
    /\ IF outcome = "error"
       THEN autoFetchBriefingFailed(f)
       ELSE /\ briefing' = [briefing EXCEPT
                                !.calls[f].pc = "notam",
                                !.calls[f].flightPlan =
                                    flightPlanData(outcome, briefing.calls[f].userId)]
            /\ UNCHANGED localStorage
    /\ UNCHANGED <<BriefingOthers, now, user>>

\* the second request (NOTAM analysis) settles; both answers are stored, then finally
NotamSettles(f, outcome) ==
    /\ f \in DOMAIN briefing.calls
    /\ briefing.calls[f].pc = "notam"
    /\ IF outcome = "error"
       THEN autoFetchBriefingFailed(f)
       ELSE /\ localStorage' =
                   BriefingCache(briefing.calls[f].flightPlan,
                                 notamAnalysisData(outcome, briefing.calls[f].userId),
                                 now, briefing.calls[f].userId)
            /\ briefing' = [briefing EXCEPT !.isCompleted = TRUE, !.isLoading = FALSE,
                                            !.calls[f].pc = "done"]
    /\ UNCHANGED <<BriefingOthers, now, user>>

\* time passes
BriefingTick(t) ==
    /\ t \in BriefingTimes
    /\ t > now
    /\ now' = t
    /\ UNCHANGED <<BriefingOthers, user, localStorage, briefing>>

----------------------------------------------------------------------------
(* lib/validation.ts: class RateLimiter, and its two exported instances as pages/Auth.tsx
   calls them. `attempts` is the Map, total here: an identifier without an entry has
   the record NoRecord, which no call writes (a written count is at least 1). *)

Identifiers == {"a@x.org", "b@x.org"}

NoRecord == [count |-> 0, lastAttempt |-> 0]

\* constructor(maxAttempts, windowMs)
RateLimiter(maxAttempts, windowMs) ==
    [attempts |-> [i \in Identifiers |-> NoRecord],
     maxAttempts |-> maxAttempts, windowMs |-> windowMs]

\* seeded fault: the window is reset as soon as its age reaches windowMs
canAttemptEarly(this, identifier, t) ==
    LET record == this.attempts[identifier] IN
    IF record = NoRecord THEN TRUE
    ELSE IF t - record.lastAttempt >= this.windowMs THEN TRUE
    ELSE record.count < this.maxAttempts

\* what canAttempt(identifier) returns when Date.now() is t
canAttempt(this, identifier, t) ==
    LET record == this.attempts[identifier] IN
    IF record = NoRecord THEN TRUE
    ELSE IF t - record.lastAttempt > this.windowMs THEN TRUE
    ELSE IF record.count >= this.maxAttempts THEN FALSE
    ELSE TRUE

\* the limiter after canAttempt(identifier) has run at time t
attempted(this, identifier, t) ==
    LET record == this.attempts[identifier] IN
    IF record = NoRecord \/ t - record.lastAttempt > this.windowMs
    THEN [this EXCEPT !.attempts[identifier] = [count |-> 1, lastAttempt |-> t]]
    ELSE IF record.count >= this.maxAttempts
    THEN this
    ELSE [this EXCEPT !.attempts[identifier] =
                         [count |-> record.count + 1, lastAttempt |-> t]]

\* Math.max(0, timeLeft)
Max0(x) == IF x < 0 THEN 0 ELSE x

\* what getRemainingTime(identifier) returns when Date.now() is t
getRemainingTime(this, identifier, t) ==
    LET record == this.attempts[identifier] IN
    IF record = NoRecord \/ record.count < this.maxAttempts THEN 0
    ELSE Max0(this.windowMs - (t - record.lastAttempt))

\* the time that passes before a call: none, a full window, a millisecond more
Elapsed(this) == {0, this.windowMs, this.windowMs + 1}

Attempt(limiter, identifier, t, allowed) ==
    [limiter |-> limiter, identifier |-> identifier, at |-> t, allowed |-> allowed]

\* the two limiters share no state: a behaviour exercises one of them
Only(limiter) == \A i \in DOMAIN attemptLog : attemptLog[i].limiter = limiter

RateOthers == <<currentAircraftModel, aircraftStates, queuedModel, queuedStates, procs,
                mountLoads, dbConversations, voiceCount, voice, channels, list,
                isVoiceSpeaking, user, localStorage, briefing>>

(* pages/Auth.tsx handleSignIn: authRateLimiter.canAttempt(email), `elapsed` after the
   call before *)
authCanAttempt(email, elapsed) ==
    /\ now' = now + elapsed
    /\ authRateLimiter' = attempted(authRateLimiter, email, now')
    /\ attemptLog' = Append(attemptLog,
                            Attempt("auth", email, now',
                                    canAttempt(authRateLimiter, email, now')))
    /\ UNCHANGED <<RateOthers, registrationRateLimiter>>

(* pages/Auth.tsx handleSignUp: registrationRateLimiter.canAttempt(email) *)
registrationCanAttempt(email, elapsed) ==
    /\ now' = now + elapsed
    /\ registrationRateLimiter' = attempted(registrationRateLimiter, email, now')
    /\ attemptLog' = Append(attemptLog,
                            Attempt("registration", email, now',
                                    canAttempt(registrationRateLimiter, email, now')))
    /\ UNCHANGED <<RateOthers, authRateLimiter>>

----------------------------------------------------------------------------

Init ==
    /\ currentAircraftModel = "A320"
    /\ aircraftStates = [d \in Domains |-> initialAircraftState]
    /\ queuedModel = currentAircraftModel
    /\ queuedStates = aircraftStates
    /\ procs = <<>>
    /\ mountLoads = Domains
    /\ dbConversations = InitialConversations
    /\ voiceCount = 0
    /\ voice = VoiceInput
    /\ channels = <<>>
    /\ list = ListHook
    /\ isVoiceSpeaking = FALSE
    /\ now = 0
    /\ authRateLimiter = RateLimiter(5, 15 * 60 * 1000)
    /\ registrationRateLimiter = RateLimiter(3, 60 * 60 * 1000)
    /\ attemptLog = << >>
    /\ user = "U1"
    /\ localStorage = NoCache
    /\ briefing = BriefingCacheHook

Next ==
    \/ Render
    \/ \E d \in Domains, ok \in BOOLEAN : MountLoadSettles(d, ok)
    \/ \E role \in {"user", "assistant"}, c \in VoiceTranscripts :
          voiceCount < MaxVoice /\ handleVoiceMessage(role, c)
    \/ \E c \in Contents, d \in Domains : Len(procs) < MaxOps /\ sendMessage(c, d)
    \/ \E c \in Contents : Len(procs) < MaxOps /\ handleSendMessage(c)
    \/ \E d \in Domains : \E c \in SelectConversationIds(d) :
          Len(procs) < MaxOps /\ switchConversation(c, d)
    \/ \E d \in Domains : Len(procs) < MaxOps /\ switchAircraftModel(d)
    \/ \E p \in DOMAIN procs, ok \in BOOLEAN : InsertSettles(p, ok)
    \/ \E p \in DOMAIN procs, ok \in BOOLEAN : ListSettles(p, ok)
    \/ \E p \in DOMAIN procs, ok \in BOOLEAN : MessagesSettle(p, ok)
    \/ \E p \in DOMAIN procs, a \in Answers : InvokeSucceeds(p, a)
    \/ \E p \in DOMAIN procs : InvokeFails(p)
    \/ \E p \in DOMAIN procs, ok \in BOOLEAN : RefreshSettles(p, ok)
    \/ \E p \in DOMAIN procs, ok \in BOOLEAN : ConversationsSettle(p, ok)

Spec == Init /\ [][Next]_vars

(* The update primitive under voice transcripts only: every write to the session map
   is a functional append, a conversation list load or a model switch *)
NextAppend ==
    \/ Render
    \/ \E d \in Domains, ok \in BOOLEAN : MountLoadSettles(d, ok)
    \/ \E role \in {"user", "assistant"}, c \in VoiceTranscripts :
          voiceCount < MaxAppends /\ handleVoiceMessage(role, c)
    \/ \E d \in Domains : Len(procs) < MaxOps /\ switchAircraftModel(d)
    \/ \E p \in DOMAIN procs, ok \in BOOLEAN : ConversationsSettle(p, ok)

SpecAppend == Init /\ [][NextAppend]_vars

(* Conversation management: the functions of the hook that read and write the store's
   conversations and timelines, called in any order and overlapping *)
NextConversations ==
    \/ Render
    \/ \E d \in Domains, ok \in BOOLEAN : MountLoadSettles(d, ok)
    \/ \E d \in ConversationDomains, signedIn \in BOOLEAN :
          Len(procs) < MaxConversationOps /\ createConversation(d, signedIn)
    \/ \E d \in ConversationDomains : \E c \in KnownConversationIds(d) :
          Len(procs) < MaxConversationOps /\ switchConversation(c, d)
    \/ \E d \in ConversationDomains : \E c \in KnownConversationIds(d) :
          Len(procs) < MaxConversationOps /\ deleteConversation(c, d)
    \/ \E d \in ConversationDomains :
          Len(procs) < MaxConversationOps /\ loadConversationsCall(d)
    \/ \E d \in ConversationDomains : \E c \in KnownConversationIds(d) :
          Len(procs) < MaxConversationOps /\ loadMessagesCall(c, d)
    \/ \E p \in DOMAIN procs, ok \in BOOLEAN : InsertSettles(p, ok)
    \/ \E p \in DOMAIN procs, ok \in BOOLEAN : ListSettles(p, ok)
    \/ \E p \in DOMAIN procs, ok \in BOOLEAN : MessagesSettle(p, ok)
    \/ \E p \in DOMAIN procs, ok \in BOOLEAN : DeleteSettles(p, ok)
    \/ \E p \in DOMAIN procs, ok \in BOOLEAN : ConversationsSettle(p, ok)

SpecConversations == Init /\ [][NextConversations]_vars

(* One send and any switches of the active model: the send may be started before,
   between or after the switches, and its steps overlap theirs *)
NoSend == \A p \in DOMAIN procs : procs[p].kind \notin {"sendMessage", "handleSendMessage"}

\* a store or answer-service response is delivered to a waiting call
Settles ==
    \/ \E p \in DOMAIN procs, ok \in BOOLEAN : InsertSettles(p, ok)
    \/ \E p \in DOMAIN procs, ok \in BOOLEAN : ListSettles(p, ok)
    \/ \E p \in DOMAIN procs, ok \in BOOLEAN : MessagesSettle(p, ok)
    \/ \E p \in DOMAIN procs, a \in Answers : InvokeSucceeds(p, a)
    \/ \E p \in DOMAIN procs : InvokeFails(p)
    \/ \E p \in DOMAIN procs, ok \in BOOLEAN : RefreshSettles(p, ok)
    \/ \E p \in DOMAIN procs, ok \in BOOLEAN : ConversationsSettle(p, ok)

NextSwitch ==
    \/ Render
    \/ \E d \in Domains, ok \in BOOLEAN : MountLoadSettles(d, ok)
    \/ \E c \in Contents, d \in Domains :
          Len(procs) < MaxSwitchOps /\ NoSend /\ sendMessage(c, d)
    \/ \E c \in Contents : Len(procs) < MaxSwitchOps /\ NoSend /\ handleSendMessage(c)
    \/ \E d \in Domains : Len(procs) < MaxSwitchOps /\ switchAircraftModel(d)
    \/ Settles

\* every request is answered in the end and every update is rendered in the end
SpecSwitch == Init /\ [][NextSwitch]_vars /\ WF_vars(Settles) /\ WF_vars(Render)

(* Conversation list loads and switches of the active model: the lists are loaded by
   loadConversations, at mount and by direct calls, and the tabs switch the model *)
NextLoads ==
    \/ Render
    \/ \E d \in Domains, ok \in BOOLEAN : MountLoadSettles(d, ok)
    \/ \E d \in Domains : Len(procs) < MaxLoadOps /\ loadConversationsCall(d)
    \/ \E d \in Domains : Len(procs) < MaxLoadOps /\ switchAircraftModel(d)
    \/ \E p \in DOMAIN procs, ok \in BOOLEAN : ConversationsSettle(p, ok)

SpecLoads == Init /\ [][NextLoads]_vars

\* the events delivered so far, on all channels
Delivered ==
    LET sum[i \in 0..Len(channels)] ==
            IF i = 0 THEN 0 ELSE sum[i - 1] + channels[i].events
    IN  sum[Len(channels)]

(* The voice input: connecting, disconnecting, transcripts arriving on the channels,
   and the tabs being switched, which unmounts the input of the tab left *)
NextVoice ==
    \/ Render
    \/ \E d \in Domains, ok \in BOOLEAN : MountLoadSettles(d, ok)
    \/ voice.calls < MaxVoiceCalls /\ connectVoice
    \/ voice.calls < MaxVoiceCalls /\ disconnectVoice
    \/ \E a \in DOMAIN channels, ok \in BOOLEAN : SessionSettles(a, ok)
    \/ \E a \in DOMAIN channels, ok \in BOOLEAN : MicSettles(a, ok)
    \/ \E a \in DOMAIN channels, ok \in BOOLEAN : SdpSettles(a, ok)
    \/ \E a \in DOMAIN channels, type \in EventTypes, transcript \in EventTranscripts :
          Delivered < MaxEvents /\ dcOnMessage(a, type, transcript)
    \/ \E d \in Domains : Len(procs) < MaxTabSwitches /\ switchAircraftModel(d)
    \/ \E p \in DOMAIN procs, ok \in BOOLEAN : ConversationsSettle(p, ok)

SpecVoice == Init /\ [][NextVoice]_vars

(* The speaking indicator: the voice input connects and disconnects, the events that
   start and stop the indicator arrive on the channels, and the tabs are switched *)
NextSpeaking ==
    \/ Render
    \/ \E d \in Domains, ok \in BOOLEAN : MountLoadSettles(d, ok)
    \/ voice.calls < MaxVoiceCalls /\ connectVoice
    \/ voice.calls < MaxVoiceCalls /\ disconnectVoice
    \/ \E a \in DOMAIN channels, ok \in BOOLEAN : SessionSettles(a, ok)
    \/ \E a \in DOMAIN channels, ok \in BOOLEAN : MicSettles(a, ok)
    \/ \E a \in DOMAIN channels, ok \in BOOLEAN : SdpSettles(a, ok)
    \/ \E a \in DOMAIN channels, type \in SpeakingEventTypes :
          Delivered < MaxSpeakingEvents /\ dcOnMessage(a, type, "")
    \/ \E a \in DOMAIN channels : dcOnClose(a)
    \/ \E d \in Domains : Len(procs) < MaxTabSwitches /\ switchAircraftModel(d)
    \/ \E p \in DOMAIN procs, ok \in BOOLEAN : ConversationsSettle(p, ok)

SpecSpeaking == Init /\ [][NextSpeaking]_vars

(* The microphone button: the voice input connects and disconnects, and the microphone
   is muted and unmuted while it is connected *)
NextMic ==
    \/ Render
    \/ \E d \in Domains, ok \in BOOLEAN : MountLoadSettles(d, ok)
    \/ voice.calls < MaxMicCalls /\ connectVoice
    \/ voice.calls < MaxMicCalls /\ disconnectVoice
    \/ \E a \in DOMAIN channels, ok \in BOOLEAN : SessionSettles(a, ok)
    \/ \E a \in DOMAIN channels, ok \in BOOLEAN : MicSettles(a, ok)
    \/ \E a \in DOMAIN channels, ok \in BOOLEAN : SdpSettles(a, ok)
    \/ toggleMic

SpecMic == Init /\ [][NextMic]_vars

(* hooks/useAuth.tsx: the listener of supabase.auth.onAuthStateChange sets the user of the
   session, or null; when there is a user, useMultiChat's effect on [user] loads the
   three lists again and the effect of Index calls autoFetchBriefing(user.id) *)
onAuthStateChange(sessionUser) ==
    /\ sessionUser # user
    /\ user' = sessionUser
    /\ mountLoads' = IF sessionUser # NoUser THEN Domains ELSE mountLoads
    /\ briefing' = IF sessionUser # NoUser
                   THEN autoFetchBriefing(briefing, localStorage, sessionUser)
                   ELSE briefing
    /\ UNCHANGED <<currentAircraftModel, aircraftStates, queuedModel, queuedStates, procs,
                   dbConversations, voiceCount, voice, channels, list, isVoiceSpeaking, now,
                   authRateLimiter, registrationRateLimiter, attemptLog, localStorage>>

(* The briefing cache: the account of the session changes, the briefing is fetched by
   the effect and by the button, and time passes *)
NextBriefing ==
    \/ Render
    \/ \E d \in Domains : MountLoadSettles(d, TRUE)
    \/ \E u \in Users \cup {NoUser} :
          Len(briefing.calls) < MaxBriefingCalls /\ onAuthStateChange(u)
    \/ Len(briefing.calls) < MaxBriefingCalls /\ IndexBriefingEffect
    \/ Len(briefing.calls) < MaxBriefingCalls /\ refreshBriefing
    \/ \E f \in DOMAIN briefing.calls, o \in BriefingOutcomes : FlightPlanSettles(f, o)
    \/ \E f \in DOMAIN briefing.calls, o \in BriefingOutcomes : NotamSettles(f, o)
    \/ \E t \in BriefingTimes : BriefingTick(t)

SpecBriefing == Init /\ [][NextBriefing]_vars

(* Direct calls of sendMessage on domains without a current conversation, with and
   without a signed-in user *)
NextCreate ==
    \/ Render
    \/ \E d \in Domains, ok \in BOOLEAN : MountLoadSettles(d, ok)
    \/ onAuthStateChange(NoUser)                    \* the session ends
    \/ \E c \in Contents, d \in ConversationDomains :
          Len(procs) < MaxCreateOps /\ sendMessage(c, d)
    \/ \E p \in DOMAIN procs, ok \in BOOLEAN : InsertSettles(p, ok)
    \/ \E p \in DOMAIN procs, ok \in BOOLEAN : ListSettles(p, ok)
    \/ \E p \in DOMAIN procs, a \in Answers : InvokeSucceeds(p, a)
    \/ \E p \in DOMAIN procs : InvokeFails(p)
    \/ \E p \in DOMAIN procs, ok \in BOOLEAN : RefreshSettles(p, ok)

SpecCreate == Init /\ [][NextCreate]_vars

(* The text input of the chat view: typing, submitting, and the sends the submits start *)
NextInput ==
    \/ Render
    \/ \E d \in Domains, ok \in BOOLEAN : MountLoadSettles(d, ok)
    \/ \E text \in InputTexts : setMessage(text)
    \/ voice.submits < MaxSubmits /\ handleSubmit
    \/ \E p \in DOMAIN procs, ok \in BOOLEAN : InsertSettles(p, ok)
    \/ \E p \in DOMAIN procs, ok \in BOOLEAN : ListSettles(p, ok)
    \/ \E p \in DOMAIN procs, ok \in BOOLEAN : MessagesSettle(p, ok)
    \/ \E p \in DOMAIN procs, a \in Answers : InvokeSucceeds(p, a)
    \/ \E p \in DOMAIN procs : InvokeFails(p)
    \/ \E p \in DOMAIN procs, ok \in BOOLEAN : RefreshSettles(p, ok)

SpecInput == Init /\ [][NextInput]_vars

(* The rate limiters of the sign-in and registration forms *)
NextRateLimiter ==
    \/ \E email \in Identifiers, elapsed \in Elapsed(authRateLimiter) :
          /\ Len(attemptLog) < MaxSignIns /\ Only("auth")
          /\ authCanAttempt(email, elapsed)
    \/ \E email \in Identifiers, elapsed \in Elapsed(registrationRateLimiter) :
          /\ Len(attemptLog) < MaxSignUps /\ Only("registration")
          /\ registrationCanAttempt(email, elapsed)

SpecRateLimiter == Init /\ [][NextRateLimiter]_vars

(* The conversation list next to the chat view: the list's handlers on the list's hook,
   a send from the chat view on the page's hook, one store *)
NextList ==
    \/ Render
    \/ \E d \in Domains, ok \in BOOLEAN : MountLoadSettles(d, ok)
    \/ \E d \in Domains, ok \in BOOLEAN : ListMountLoadSettles(d, ok)
    \/ \E d \in Domains : \E c \in ListedConversationIds(d) :
          Len(list.procs) < MaxListOps /\ handleSwitchConversation(c, d)
    \/ Len(list.procs) < MaxListOps /\ handleCreateConversation
    \/ \E d \in Domains : \E c \in ListedConversationIds(d) :
          Len(list.procs) < MaxListOps /\ handleDeleteConversation(c, d)
    \/ \E p \in DOMAIN list.procs, ok \in BOOLEAN : ListInsertSettles(p, ok)
    \/ \E p \in DOMAIN list.procs, ok \in BOOLEAN : ListListSettles(p, ok)
    \/ \E p \in DOMAIN list.procs, ok \in BOOLEAN : ListMessagesSettle(p, ok)
    \/ \E p \in DOMAIN list.procs, ok \in BOOLEAN : ListDeleteSettles(p, ok)
    \/ \E p \in DOMAIN list.procs, ok \in BOOLEAN : ListConversationsSettle(p, ok)
    \/ \E c \in Contents : Len(procs) < MaxChatOps /\ handleSendMessage(c)
    \/ \E p \in DOMAIN procs, ok \in BOOLEAN : InsertSettles(p, ok)
    \/ \E p \in DOMAIN procs, ok \in BOOLEAN : ListSettles(p, ok)
    \/ \E p \in DOMAIN procs, ok \in BOOLEAN : MessagesSettle(p, ok)
    \/ \E p \in DOMAIN procs, a \in Answers : InvokeSucceeds(p, a)
    \/ \E p \in DOMAIN procs : InvokeFails(p)
    \/ \E p \in DOMAIN procs, ok \in BOOLEAN : RefreshSettles(p, ok)

SpecList == Init /\ [][NextList]_vars

----------------------------------------------------------------------------
(* Properties *)

Send(p) == procs[p].kind \in {"sendMessage", "handleSendMessage"}

\* the step in which the answer service settles for call p
Answered(p) == procs[p].pc = "invoke" /\ procs'[p].pc = "refresh"

Failed(p) == procs[p].pc = "invoke" /\ procs'[p].pc = "rejected"

TypingCount(messages) == Cardinality({i \in 1..Len(messages) : messages[i].isTyping})

Ids(messages) == {messages[i].id : i \in 1..Len(messages)}

Confirmed(messages, id) ==
    \E i \in 1..Len(messages) : messages[i].id = id /\ ~messages[i].isPending

\* C1: in every reachable state, the messages of every domain hold at most one
\* message with isTyping = true
C1_TypingUnique ==
    \A d \in Domains : TypingCount(aircraftStates[d].messages) <= 1

\* C2: when the answer service settles for a sendMessage, successfully or not, every
\* message that was pending in the domain's timeline when sendMessage was entered is
\* in the timeline with isPending = false
C2_PendingResolved ==
    [][\A p \in DOMAIN procs :
          Send(p) /\ (Answered(p) \/ Failed(p)) =>
             \A id \in procs[p].pendingAtCall :
                 Confirmed(queuedStates'[procs[p].aircraftModel].messages, id)]_vars

\* C3: when the answer service fails for a message submitted by the user, the
\* domain's session has isLoading = false, no typing message, and the user's own
\* message with isPending = false, and the call is rejected
C3_FailureKeepsUserMessage ==
    [][\A p \in DOMAIN procs :
          procs[p].kind = "handleSendMessage" /\ Failed(p) =>
             LET session == queuedStates'[procs[p].aircraftModel] IN
             /\ ~session.isLoading
             /\ TypingCount(session.messages) = 0
             /\ Confirmed(session.messages, <<"temp", p>>)]_vars

\* C4: a message c submitted on an empty timeline and answered with a leaves the
\* timeline [user c with isPending = false, assistant a], with no typing placeholder
C4_RoundTrip ==
    [][\A p \in DOMAIN procs :
          procs[p].kind = "handleSendMessage" /\ procs[p].snap.messages = <<>> /\ Answered(p) =>
             \E c \in Contents, a \in Answers :
                /\ procs[p].baseMessages = << userMessage(p, c) >>
                /\ procs'[p].answer = a
                /\ queuedStates'[procs[p].aircraftModel].messages =
                      << Message("temp", p, "user", c, FALSE, FALSE, FALSE),
                         Message("assistant", p, "assistant", a, FALSE, FALSE, FALSE) >>]_vars

C4_Witness ==
    \E p \in DOMAIN procs :
        /\ procs[p].kind = "handleSendMessage" /\ procs[p].snap.messages = <<>>
        /\ procs[p].pc = "done"
        /\ Rendered
        /\ LET messages == aircraftStates[procs[p].aircraftModel].messages IN
           /\ Len(messages) = 2
           /\ messages[1].role = "user" /\ ~messages[1].isPending
           /\ messages[2] = assistantMessage(p, procs[p].answer)

VoiceIds(messages) == {messages[i].id : i \in {j \in 1..Len(messages) : messages[j].isVoice}}

\* C5: a functional append is computed from the state left by the updates enqueued
\* before it, so it keeps every message of that state and adds its own as the last
C5_AtomicAppend ==
    [][voiceCount' # voiceCount =>
          LET before == queuedStates[currentAircraftModel].messages
              after == queuedStates'[currentAircraftModel].messages IN
          /\ Len(after) = Len(before) + 1
          /\ SubSeq(after, 1, Len(before)) = before
          /\ after[Len(after)].isVoice]_vars

\* two functional appends issued before either is rendered are both in the timeline
C5_Witness ==
    \E d \in Domains :
        /\ Cardinality(VoiceIds(queuedStates[d].messages)) = 2
        /\ VoiceIds(aircraftStates[d].messages) = {}

\* C6: the reconciliation of a successful send keeps every voice message that was
\* in the domain's timeline when the answer arrived
C6_ReconcileKeepsOthers ==
    [][\A p \in DOMAIN procs :
          Send(p) /\ Answered(p) =>
             VoiceIds(queuedStates[procs[p].aircraftModel].messages)
                \subseteq Ids(queuedStates'[procs[p].aircraftModel].messages)]_vars

NonTyping(messages) == SelectSeq(messages, NotTyping)

\* C7: the cleanup of a failed send removes the typing placeholder only: every
\* non-typing message of the live timeline is still in the timeline afterwards
C7_CleanupFromLive ==
    [][\A p \in DOMAIN procs :
          Send(p) /\ Failed(p) =>
             Ids(NonTyping(queuedStates[procs[p].aircraftModel].messages))
                \subseteq Ids(queuedStates'[procs[p].aircraftModel].messages)]_vars

\* call p is started or takes a step
Steps(p) == p \notin DOMAIN procs \/ procs'[p] # procs[p]

\* C8: every step of a sendMessage on one domain leaves the session of every other
\* domain unchanged
C8_SendFrame ==
    [][\A p \in DOMAIN procs' :
          procs'[p].kind \in {"sendMessage", "handleSendMessage"} /\ Steps(p) =>
             \A d \in Domains \ {procs'[p].aircraftModel} :
                 queuedStates'[d] = queuedStates[d] /\ aircraftStates'[d] = aircraftStates[d]]_vars

C8_Witness ==
    \E p \in DOMAIN procs, d \in Domains :
        /\ Send(p) /\ procs[p].pc = "done"
        /\ d # procs[p].aircraftModel
        /\ aircraftStates[procs[p].aircraftModel].messages # <<>>
        /\ aircraftStates[d].messages # <<>>

Switch(p) == procs[p].kind = "switchAircraftModel"

\* C9 as stated: no step of switchAircraftModel changes the messages or the
\* conversations of any domain
C9_SwitchFrame ==
    [][\A p \in DOMAIN procs' :
          procs'[p].kind = "switchAircraftModel" /\ Steps(p) =>
             \A d \in Domains :
                 /\ queuedStates'[d].messages = queuedStates[d].messages
                 /\ queuedStates'[d].conversations = queuedStates[d].conversations]_vars

\* C9 as amended: no step of switchAircraftModel changes the messages of any domain
\* or the conversations of a domain other than the one switched to; the list of the
\* domain switched to is replaced by the store's list only if it was empty at the call
C9_SwitchFrameAmended ==
    [][\A p \in DOMAIN procs' :
          procs'[p].kind = "switchAircraftModel" /\ Steps(p) =>
             \A d \in Domains :
                 /\ queuedStates'[d].messages = queuedStates[d].messages
                 /\ \/ queuedStates'[d].conversations = queuedStates[d].conversations
                    \/ /\ d = procs'[p].aircraftModel
                       /\ procs'[p].snap.conversations = <<>>
                       /\ queuedStates'[d].conversations
                             = SelectConversations(dbConversations, d)]_vars

C9_Witness ==
    \E p \in DOMAIN procs :
        /\ Switch(p) /\ procs[p].pc = "done"
        /\ procs[p].snap.conversations = <<>>
        /\ aircraftStates[procs[p].aircraftModel].conversations # <<>>
        /\ currentAircraftModel = procs[p].aircraftModel

AssistantIds(messages) ==
    {messages[i].id : i \in {j \in 1..Len(messages) : messages[j].role = "assistant"}}

\* call p is a send whose answer has arrived
WasAnswered(p) == Send(p) /\ procs[p].answer # ""

\* C10: when one send on each of two domains is all that was started and both were
\* answered, each timeline holds exactly one assistant message, the answer to its own
\* send, and no message made by the other send
C10_TwoDomains ==
    \A p, q \in DOMAIN procs :
        (/\ Len(procs) = 2 /\ voiceCount = 0 /\ p # q
         /\ WasAnswered(p) /\ WasAnswered(q)
         /\ procs[p].aircraftModel # procs[q].aircraftModel)
        => LET messages == queuedStates[procs[p].aircraftModel].messages IN
           /\ AssistantIds(messages) = { <<"assistant", p>> }
           /\ \E i \in 1..Len(messages) :
                 messages[i] = assistantMessage(p, procs[p].answer)
           /\ \A i \in 1..Len(messages) : messages[i].id[2] # q

C10_Witness ==
    /\ Len(procs) = 2 /\ voiceCount = 0 /\ Rendered
    /\ procs[1].kind = "sendMessage" /\ procs[2].kind = "sendMessage"
    /\ procs[1].pc = "done" /\ procs[2].pc = "done"
    /\ procs[1].aircraftModel = "A320" /\ procs[2].aircraftModel = "A350"
    /\ Len(aircraftStates["A320"].messages) = 1 /\ Len(aircraftStates["A350"].messages) = 1

----------------------------------------------------------------------------
(* Properties of conversation management *)

\* call p takes the step from pc `from` to one of the pcs `to`
Moves(p, from, to) == p \in DOMAIN procs /\ procs[p].pc = from /\ procs'[p].pc \in to

\* call p is started in this step
Starts(p) == p \notin DOMAIN procs /\ p \in DOMAIN procs'

Live(p) == queuedStates[procs[p].aircraftModel]

\* C12: when the store has deleted the conversation of a deleteConversation call and that
\* conversation is the current one of the domain at that moment, the domain's session
\* gets currentConversation = null and messages = [], and no other domain changes
C12_DeleteClearsCurrent ==
    [][\A p \in DOMAIN procs :
          /\ procs[p].kind = "deleteConversation"
          /\ Moves(p, "delete", {"conversations"})
          /\ Live(p).currentConversation = procs[p].conversationId
          => /\ Live(p)'.currentConversation = NoConversation
             /\ Live(p)'.messages = <<>>
             /\ \A d \in Domains \ {procs[p].aircraftModel} :
                   queuedStates'[d] = queuedStates[d]]_vars

\* every call so far is a createConversation that has returned or a switchConversation
\* whose load has succeeded
Settled ==
    \A p \in DOMAIN procs :
        \/ procs[p].kind = "createConversation" /\ procs[p].pc \in {"done", "null"}
        \/ procs[p].kind = "switchConversation" /\ procs[p].pc = "done"

\* C13: when nothing but conversation switches has been done and every load has
\* completed, the messages of a domain are the stored timeline of its current conversation
C13_TimelineOfCurrent ==
    Settled =>
        \A d \in Domains :
            queuedStates[d].currentConversation # NoConversation =>
                queuedStates[d].messages = StoredMessages(queuedStates[d].currentConversation)

\* C14: the step that starts switchConversation(id, domain) sets currentConversation = id
\* and isLoading = true and changes nothing else; the messages of the domain change
\* in no step of the call but the one in which its loadMessages settles
C14_SwitchKeepsMessages ==
    [][\A p \in DOMAIN procs' :
          procs'[p].kind = "switchConversation" =>
             /\ Starts(p) =>
                   queuedStates' = [queuedStates EXCEPT
                       ![procs'[p].aircraftModel].currentConversation = procs'[p].conversationId,
                       ![procs'[p].aircraftModel].isLoading = TRUE]
             /\ (p \in DOMAIN procs /\ Steps(p) /\ Live(p)'.messages # Live(p).messages) =>
                   Moves(p, "messages", {"done", "caught"})]_vars

\* a switch is awaiting its load while the domain still shows the timeline of the
\* conversation that was current before
C14_Witness ==
    \E p \in DOMAIN procs :
        /\ procs[p].kind = "switchConversation" /\ procs[p].pc = "messages"
        /\ Rendered
        /\ aircraftStates[procs[p].aircraftModel].currentConversation = procs[p].conversationId
        /\ aircraftStates[procs[p].aircraftModel].isLoading
        /\ aircraftStates[procs[p].aircraftModel].messages # <<>>
        /\ aircraftStates[procs[p].aircraftModel].messages # StoredMessages(procs[p].conversationId)

\* C15 as stated: when the load of a switchConversation fails, the call is not rejected,
\* isLoading is false and the messages are those the domain had before the switch
C15_SwitchFailureKeeps ==
    [][\A p \in DOMAIN procs :
          procs[p].kind = "switchConversation" /\ Moves(p, "messages", {"caught", "rejected"}) =>
             /\ procs'[p].pc = "caught"
             /\ ~Live(p)'.isLoading
             /\ Live(p)'.messages = procs[p].snap.messages]_vars

\* C15 as amended: when the load of a switchConversation fails, the call is not rejected,
\* isLoading is false, the messages are the empty list and the conversation switched to
\* stays the current one
C15_SwitchFailureEmpties ==
    [][\A p \in DOMAIN procs :
          procs[p].kind = "switchConversation" /\ Moves(p, "messages", {"caught", "rejected"}) =>
             /\ procs'[p].pc = "caught"
             /\ ~Live(p)'.isLoading
             /\ Live(p)'.messages = <<>>
             /\ Live(p)'.currentConversation = Live(p).currentConversation]_vars

C15_Witness ==
    \E p \in DOMAIN procs :
        /\ procs[p].kind = "switchConversation" /\ procs[p].pc = "caught"
        /\ procs[p].snap.messages # <<>>
        /\ Rendered
        /\ aircraftStates[procs[p].aircraftModel].messages = <<>>
        /\ ~aircraftStates[procs[p].aircraftModel].isLoading
        /\ aircraftStates[procs[p].aircraftModel].currentConversation = procs[p].conversationId

\* C16: when a loadMessages(conversationId, domain) fails, the messages of the domain are
\* the empty list and isLoading is false; when it succeeds, the messages are the
\* stored timeline of conversationId and isLoading is false
C16_LoadMessagesOutcome ==
    [][\A p \in DOMAIN procs :
          procs[p].kind \in {"loadMessages", "switchConversation"} =>
             /\ Moves(p, "messages", {"rejected", "caught"}) =>
                   Live(p)' = [Live(p) EXCEPT !.messages = <<>>, !.isLoading = FALSE]
             /\ Moves(p, "messages", {"done"}) =>
                   Live(p)' = [Live(p) EXCEPT !.messages = StoredMessages(procs[p].conversationId),
                                              !.isLoading = FALSE]]_vars

\* one load has failed on a domain that showed a timeline, another has succeeded
C16_Witness ==
    \E p, q \in DOMAIN procs :
        /\ procs[p].kind = "loadMessages" /\ procs[p].pc = "rejected"
        /\ procs[p].snap.messages # <<>>
        /\ queuedStates[procs[p].aircraftModel].messages = <<>>
        /\ procs[q].kind = "switchConversation" /\ procs[q].pc = "done"
        /\ StoredMessages(procs[q].conversationId) # <<>>

ListedIds(conversations) == {conversations[i].id : i \in 1..Len(conversations)}

\* C17: when createConversation on a domain has returned an id, switchConversation to
\* that id has completed with an empty stored timeline, and no other call works on the
\* domain, the domain has currentConversation = id, messages = [] and isLoading = false
C17_CreateThenSwitch ==
    \A p, q \in DOMAIN procs :
        (/\ procs[p].kind = "createConversation" /\ procs[p].pc = "done"
         /\ procs[q].kind = "switchConversation" /\ procs[q].pc = "done"
         /\ procs[q].aircraftModel = procs[p].aircraftModel
         /\ procs[q].conversationId = procs[p].conversationId
         /\ StoredMessages(procs[q].conversationId) = <<>>
         /\ \A r \in DOMAIN procs \ {p, q} : procs[r].aircraftModel # procs[p].aircraftModel)
        => /\ Live(p).currentConversation = procs[p].conversationId
           /\ Live(p).messages = <<>>
           /\ ~Live(p).isLoading

C17_Witness ==
    \E p, q \in DOMAIN procs :
        /\ procs[p].kind = "createConversation" /\ procs[p].pc = "done"
        /\ procs[q].kind = "switchConversation" /\ procs[q].pc = "done"
        /\ procs[q].aircraftModel = procs[p].aircraftModel
        /\ procs[q].conversationId = procs[p].conversationId
        /\ procs[p].conversationId \notin ListedIds(InitialConversations)
        /\ Rendered
        /\ aircraftStates[procs[p].aircraftModel].currentConversation = procs[p].conversationId
        /\ ~aircraftStates[procs[p].aircraftModel].isLoading

\* C18: a loadConversations(domain) whose select fails returns without throwing and
\* leaves the whole session map as it was; one whose select succeeds replaces the
\* conversations of that domain by the store's list and changes nothing else; the loads
\* of the mount effect change nothing or only the conversations of their domain
C18_LoadConversationsOutcome ==
    [][/\ \A p \in DOMAIN procs :
             procs[p].kind = "loadConversations" /\ Steps(p) =>
                /\ procs'[p].pc \in {"logged", "done"}
                /\ procs'[p].pc = "logged" => queuedStates' = queuedStates
                /\ procs'[p].pc = "done" =>
                      queuedStates' = [queuedStates EXCEPT ![procs[p].aircraftModel].conversations
                          = SelectConversations(dbConversations, procs[p].aircraftModel)]
       /\ \A d \in Domains :
             d \in mountLoads /\ d \notin mountLoads' =>
                \/ queuedStates' = queuedStates
                \/ queuedStates' = [queuedStates EXCEPT ![d].conversations
                                       = SelectConversations(dbConversations, d)]]_vars

\* a failed list load has left a list that is not empty and not the store's
C18_Witness ==
    \E p \in DOMAIN procs :
        /\ procs[p].kind = "loadConversations" /\ procs[p].pc = "logged"
        /\ Live(p).conversations # <<>>
        /\ Live(p).conversations # SelectConversations(dbConversations, procs[p].aircraftModel)

\* C19: createConversation(title, domain) is never rejected; when there is no user or
\* the insert fails it returns null and the session map is as it was; otherwise it
\* returns the id of the new row in the step in which its refresh of the domain's list
\* settles, which writes the store's list, holding the new id as long as the row is
\* in the store, or nothing when the refresh failed
C19_CreateOutcome ==
    [][\A p \in DOMAIN procs' :
          procs'[p].kind = "createConversation" /\ Steps(p) =>
             /\ procs'[p].pc \in {"insert", "list", "null", "done"}
             /\ procs'[p].pc = "null" =>
                   /\ queuedStates' = queuedStates
                   /\ dbConversations' = dbConversations
                   /\ procs'[p].conversationId = NoConversation
             /\ procs'[p].pc = "done" =>
                   /\ Moves(p, "list", {"done"})
                   /\ procs'[p].conversationId # NoConversation
                   /\ procs'[p].conversationId \notin ListedIds(procs'[p].snap.conversations)
                   /\ \/ queuedStates' = queuedStates
                      \/ /\ queuedStates' =
                               [queuedStates EXCEPT ![procs[p].aircraftModel].conversations
                                   = SelectConversations(dbConversations, procs[p].aircraftModel)]
                         /\ \/ procs'[p].conversationId \in ListedIds(Live(p)'.conversations)
                            \/ procs'[p].conversationId \notin ListedIds(dbConversations)]_vars

\* one call has returned null and one has returned an id that is listed
C19_Witness ==
    \E p, q \in DOMAIN procs :
        /\ procs[p].kind = "createConversation" /\ procs[p].pc = "null"
        /\ procs[q].kind = "createConversation" /\ procs[q].pc = "done"
        /\ Rendered
        /\ procs[q].conversationId \in ListedIds(aircraftStates[procs[q].aircraftModel].conversations)

----------------------------------------------------------------------------
(* Properties of a send that overlaps switches of the active model *)

\* the session `session` of the model of send p shows p's reconciled timeline
Reconciled(p, session) ==
    /\ session.messages = Append(MapSeq(procs[p].baseMessages, ConfirmPending),
                                 assistantMessage(p, procs[p].answer))
    /\ ~session.isLoading

\* call q is a switch of the active model that is started or takes a step
SwitchSteps(q) == q \in DOMAIN procs' /\ procs'[q].kind = "switchAircraftModel" /\ Steps(q)

\* C11: no step of a switchAircraftModel changes a send in flight or the timeline,
\* the loading flag or the current conversation of the send's domain; a send in flight
\* always settles, whatever the active model is; once its answer has arrived the session
\* of its own domain holds the reconciled timeline with isLoading = false, and that is
\* what is rendered in the end
C11_SwitchDuringSend ==
    /\ [][\A p \in DOMAIN procs :
             Send(p) =>
                /\ (\E q \in DOMAIN procs' : SwitchSteps(q)) =>
                      /\ procs'[p] = procs[p]
                      /\ Live(p)'.messages = Live(p).messages
                      /\ Live(p)'.isLoading = Live(p).isLoading
                      /\ Live(p)'.currentConversation = Live(p).currentConversation
                /\ procs'[p].answer # "" => Reconciled(p, Live(p))']_vars
    /\ \A p \in 1..MaxSwitchOps :
          /\ (p \in DOMAIN procs /\ Send(p))
                ~> (p \in DOMAIN procs /\ procs[p].pc \in {"done", "rejected"})
          /\ (p \in DOMAIN procs /\ WasAnswered(p))
                ~> (/\ p \in DOMAIN procs
                    /\ procs[p].pc = "done"
                    /\ Reconciled(p, aircraftStates[procs[p].aircraftModel]))

\* the user has left the domain of a send and has come back while the send was still
\* awaiting its answer; the answer has arrived and the domain is shown again
C11_Witness ==
    /\ Len(procs) = 3
    /\ Send(1) /\ Switch(2) /\ Switch(3)
    /\ procs[2].aircraftModel # procs[1].aircraftModel
    /\ procs[3].aircraftModel = procs[1].aircraftModel
    /\ TypingCount(procs[3].snap.messages) = 1
    /\ procs[1].pc = "done" /\ procs[1].answer # ""
    /\ Rendered
    /\ currentAircraftModel = procs[1].aircraftModel
    /\ Reconciled(1, aircraftStates[currentAircraftModel])

----------------------------------------------------------------------------
(* Target conversation of sendMessage *)

\* C20: a sendMessage called without a conversationId on a domain that has a current
\* conversation sends to that conversation and creates none; called on a domain without
\* one, it first creates a conversation, which it makes the domain's current one before
\* it sends; a sendMessage called with a conversationId sends to it and creates none
C20_TargetConversation ==
    [][\A p \in DOMAIN procs' :
          Steps(p) =>
             LET call == procs'[p]
                 current == call.snap.currentConversation
                 session == queuedStates'[call.aircraftModel] IN
             /\ (call.kind = "sendMessage" /\ current # NoConversation) =>
                   /\ call.pc \in {"invoke", "refresh", "done", "rejected"}
                   /\ call.conversationId = current
                   /\ dbConversations' = dbConversations
             /\ (call.kind = "sendMessage" /\ current = NoConversation) =>
                   /\ Starts(p) => call.pc = "insert" /\ queuedStates' = queuedStates
                   /\ call.pc = "invoke" =>
                         /\ Moves(p, "list", {"invoke"})
                         /\ call.conversationId # NoConversation
                         /\ call.conversationId \notin ListedIds(call.snap.conversations)
                         /\ [id |-> call.conversationId, aircraft_model |-> call.aircraftModel]
                               \in {dbConversations[i] : i \in 1..Len(dbConversations)}
                         /\ session.currentConversation = call.conversationId
             /\ (call.kind = "handleSendMessage" /\ call.pc = "invoke") =>
                   /\ call.conversationId # NoConversation
                   /\ dbConversations' = dbConversations
                   /\ p \in DOMAIN procs => call.conversationId = procs[p].conversationId]_vars

\* one send has created its conversation and a later send has used it as the current one
C20_Witness ==
    \E p, q \in DOMAIN procs :
        /\ procs[p].kind = "sendMessage" /\ procs[q].kind = "sendMessage"
        /\ procs[p].snap.currentConversation = NoConversation
        /\ procs[p].pc = "done"
        /\ procs[q].snap.currentConversation = procs[p].conversationId
        /\ procs[q].conversationId = procs[p].conversationId
        /\ procs[q].pc = "done"
        /\ Len(dbConversations) = Len(InitialConversations) + 1

----------------------------------------------------------------------------
(* Idle sessions *)

\* the pcs at which a call has returned or thrown
Returned == {"done", "rejected", "caught", "logged", "null"}

\* call p of the domain is still awaiting a response
InFlight(p, aircraftModel) ==
    procs[p].aircraftModel = aircraftModel /\ procs[p].pc \notin Returned

Idle(aircraftModel) == \A p \in DOMAIN procs : ~InFlight(p, aircraftModel)

\* C22: in every state where no operation of a domain is in flight (each sendMessage and
\* switchConversation of the domain has returned or thrown), the domain's isLoading is false
C22_IdleNotLoading ==
    \A d \in Domains : Idle(d) => ~queuedStates[d].isLoading

\* a send that failed at the answer service and a switch whose load failed, both of one
\* domain and both over
C22_Witness ==
    \E p, q \in DOMAIN procs :
        /\ Send(p) /\ procs[p].pc = "rejected" /\ procs[p].conversationId # NoConversation
        /\ procs[q].kind = "switchConversation" /\ procs[q].pc = "caught"
        /\ procs[q].aircraftModel = procs[p].aircraftModel
        /\ Idle(procs[p].aircraftModel)
        /\ ~queuedStates[procs[p].aircraftModel].isLoading

\* C23: in every state where no sendMessage of a domain is in flight, the domain's
\* messages hold no isTyping message
C23_NoTypingWhenIdle ==
    \A d \in Domains :
        (\A p \in DOMAIN procs : Send(p) => ~InFlight(p, d))
            => TypingCount(queuedStates[d].messages) = 0

----------------------------------------------------------------------------
(* Loading the conversation list on a switch of the active model *)

\* a loadConversations call of the domain has returned after writing the list it was given
Loaded(aircraftModel) ==
    \E p \in DOMAIN procs :
        /\ procs[p].kind = "loadConversations"
        /\ procs[p].aircraftModel = aircraftModel
        /\ procs[p].pc = "done"

\* C21: switchAircraftModel(domain) does not call loadConversations(domain) when the
\* domain's list has been loaded before, be it as an empty list, and calls it when the
\* list it reads was never written
C21_LoadOnlyOnce ==
    [][\A q \in DOMAIN procs' :
          Starts(q) /\ procs'[q].kind = "switchAircraftModel"
          => /\ Loaded(procs'[q].aircraftModel) => procs'[q].pc # "conversations"
             /\ procs'[q].pc # "conversations"
                    => Len(aircraftStates[procs'[q].aircraftModel].conversations) > 0]_vars

----------------------------------------------------------------------------
(* The voice input *)

\* channel a's call of connectVoice fails in this step
Fails(a) == channels[a].pc # "failed" /\ channels'[a].pc = "failed"

\* what channel a has acquired and not released
Open(ch, a) == ch[a].pcOpen \/ ch[a].dcOpen \/ ch[a].micLive

Refs(v) == {v.pcRef, v.dcRef, v.micStreamRef} \ {NoRef}

\* C24: the step in which a call of connectVoice fails (no session key, no microphone, no
\* SDP answer) reports the failure and leaves voiceConnected and connecting false, the
\* peer connection and data channel of the attempt closed, its microphone stream stopped
\* and none of them referenced
C24_FailureReleases ==
    [][\A a \in DOMAIN channels :
          Fails(a) => /\ channels'[a].reported
                      /\ channels[a].mounted
                            => ~voice'.queuedConnected /\ ~voice'.queuedConnecting
                      /\ ~Open(channels', a)
                      /\ a \notin Refs(voice')]_vars

\* the voice connections that are established and not closed
Connections == {a \in DOMAIN channels : channels[a].pc = "done" /\ channels[a].pcOpen}

\* C25: a call made while the voice input is connected or connecting starts no new
\* attempt (no second peer connection, no second microphone stream), and at most one
\* voice connection exists at any time
C25_OneConnection ==
    /\ [][voice'.calls # voice.calls /\ (voice.voiceConnected \/ voice.connecting)
            => Len(channels') = Len(channels)]_vars
    /\ [](Cardinality(Connections) <= 1)

\* disconnectVoice is called in this step on an input that is not connecting
DisconnectCalled ==
    /\ voice'.calls = voice.calls + 1
    /\ Len(channels') = Len(channels)
    /\ ~voice.connecting
    /\ voice.voiceConnected => ~voice'.voiceConnected

\* what the mounted input has acquired and not released
Held(ch) == {a \in DOMAIN ch : ch[a].mounted /\ Open(ch, a)}

\* C26: every call of disconnectVoice, be it on a connected input, right after another
\* call or on an input that was never connected, ends with voiceConnected false and no
\* peer connection, data channel or microphone stream held
C26_DisconnectTerminal ==
    [][DisconnectCalled => /\ ~voice'.queuedConnected
                           /\ Refs(voice') = {}
                           /\ Held(channels') = {}]_vars

\* C27: the step that unmounts the voice input leaves nothing of what its connectVoice
\* acquired open: the peer connection and data channel are closed and the microphone
\* tracks stopped, whether the input was connected or still connecting
C27_UnmountReleases ==
    [][\A a \in DOMAIN channels :
          channels[a].mounted /\ ~channels'[a].mounted => ~Open(channels', a)]_vars

\* the role of the speaker of a transcript event, "" for the other events
Speaker(type) ==
    CASE type = "conversation.item.input_audio_transcription.completed" -> "user"
      [] type = "response.audio_transcript.done" -> "assistant"
      [] OTHER -> ""

\* C28: an event on channel a with a transcript of a speaker that is not blank appends
\* exactly one voice message with that speaker's role and that transcript to the end of
\* the timeline of the domain channel a was connected for, and changes no other
\* timeline; every other event changes no timeline. Appending at the end at each
\* arrival keeps the arrival order.
C28_TranscriptAppended ==
    [][\A a \in DOMAIN channels, type \in EventTypes, transcript \in EventTranscripts :
          dcOnMessage(a, type, transcript) =>
             LET d == channels[a].aircraftModel
                 before == queuedStates[d].messages
                 after == queuedStates'[d].messages
             IN  /\ \A e \in Domains \ {d} :
                       queuedStates'[e].messages = queuedStates[e].messages
                 /\ IF Speaker(type) # "" /\ transcript \notin {"", " "}
                    THEN /\ Len(after) = Len(before) + 1
                         /\ SubSeq(after, 1, Len(before)) = before
                         /\ after[Len(after)].role = Speaker(type)
                         /\ after[Len(after)].content = transcript
                         /\ after[Len(after)].isVoice
                    ELSE after = before]_vars

\* a channel whose input is unmounted has delivered a transcript and a blank event while
\* another tab is the active one: one voice message is in the timeline of its domain
C28_Witness ==
    \E a \in DOMAIN channels :
        /\ ~channels[a].mounted
        /\ channels[a].events = 2
        /\ channels[a].aircraftModel # currentAircraftModel
        /\ Len(queuedStates[channels[a].aircraftModel].messages) = 1
        /\ queuedStates[channels[a].aircraftModel].messages[1].isVoice
        /\ \A e \in Domains \ {channels[a].aircraftModel} : queuedStates[e].messages = <<>>

\* the fields of a session that hold no messages
Rest(session) ==
    [conversations |-> session.conversations,
     currentConversation |-> session.currentConversation,
     isLoading |-> session.isLoading]

\* C29: the step that handles a voice transcript leaves conversations, currentConversation
\* and isLoading of every domain as they were, keeps every message that was in a timeline
\* unchanged and in its place, and changes neither the active model nor any call
C29_VoiceFrame ==
    [][voiceCount' # voiceCount =>
          /\ \A d \in Domains :
                /\ Rest(queuedStates'[d]) = Rest(queuedStates[d])
                /\ Len(queuedStates'[d].messages) >= Len(queuedStates[d].messages)
                /\ SubSeq(queuedStates'[d].messages, 1, Len(queuedStates[d].messages))
                      = queuedStates[d].messages
          /\ UNCHANGED <<queuedModel, procs, dbConversations>>]_vars

\* a transcript has arrived while a send of the domain awaits its answer: it stands after
\* the typing placeholder, and the domain is still loading in its current conversation
C29_Witness ==
    \E d \in Domains :
        LET messages == queuedStates[d].messages IN
        /\ queuedStates[d].isLoading
        /\ queuedStates[d].currentConversation # NoConversation
        /\ Len(queuedStates[d].conversations) > 0
        /\ Len(messages) >= 2
        /\ messages[Len(messages) - 1].isTyping
        /\ messages[Len(messages)].isVoice

----------------------------------------------------------------------------
(* The conversation list and the chat view *)

\* call p of the conversation list takes a step, its first one included
ListSteps(p) == p \notin DOMAIN list.procs \/ list'.procs[p] # list.procs[p]

\* C30: what a switchConversation, createConversation or deleteConversation issued from
\* the conversation list writes to a domain's session is written to the session the chat
\* view reads and sendMessage writes: after each step of such a call that changes the
\* domain's session, the chat view's session of the domain is that session
C30_OneSessionMap ==
    [][\A p \in DOMAIN list'.procs :
          LET d == list'.procs[p].aircraftModel IN
          ListSteps(p) /\ list'.aircraftStates[d] # list.aircraftStates[d]
              => queuedStates'[d] = list'.aircraftStates[d]]_vars

----------------------------------------------------------------------------
(* A send that outlives a switch of its domain's conversation *)

\* a switchConversation of the domain of send p, to another conversation than the one p
\* sends to, has loaded its messages, and that conversation is the domain's current one
SwitchedAway(p) ==
    \E q \in DOMAIN procs :
        /\ procs[q].kind = "switchConversation"
        /\ procs[q].aircraftModel = procs[p].aircraftModel
        /\ procs[q].pc = "done"
        /\ procs[q].conversationId # procs[p].conversationId
        /\ queuedStates[procs[p].aircraftModel].currentConversation = procs[q].conversationId

\* C31: when the answer of a sendMessage arrives after its domain was switched to another
\* conversation whose messages were loaded, the send goes on (it does not throw), the
\* domain's messages become the send's baseMessages, pending flags cleared, plus the
\* answer, the current conversation stays the one switched to, and the messages are not
\* the stored timeline of that current conversation
C31_AnswerAfterSwitch ==
    [][\A p \in DOMAIN procs :
          (Send(p) /\ Answered(p) /\ SwitchedAway(p)) =>
             LET d == procs[p].aircraftModel IN
             /\ procs'[p].pc = "refresh"
             /\ queuedStates'[d].messages =
                    Append(MapSeq(procs[p].baseMessages, ConfirmPending),
                           assistantMessage(p, procs'[p].answer))
             /\ queuedStates'[d].currentConversation = queuedStates[d].currentConversation
             /\ queuedStates'[d].currentConversation # procs[p].conversationId
             /\ queuedStates'[d].messages
                    # StoredMessages(queuedStates'[d].currentConversation)]_vars

\* a send created its conversation, the domain was then switched to the stored
\* conversation and its message was loaded, and the answer arrived after that: the
\* timeline shown under the stored conversation is the send's
C31_Witness ==
    \E p, q \in DOMAIN procs :
        /\ Send(p) /\ procs[p].answer # ""
        /\ procs[q].kind = "switchConversation" /\ procs[q].pc = "done"
        /\ procs[q].aircraftModel = procs[p].aircraftModel
        /\ procs[q].conversationId # procs[p].conversationId
        /\ StoredMessages(procs[q].conversationId) # << >>
        /\ Rendered
        /\ aircraftStates[procs[p].aircraftModel].currentConversation = procs[q].conversationId
        /\ aircraftStates[procs[p].aircraftModel].messages =
               Append(MapSeq(procs[p].baseMessages, ConfirmPending),
                      assistantMessage(p, procs[p].answer))

----------------------------------------------------------------------------
(* The speaking indicator *)

\* some call of connectVoice has a data channel that is open
ChannelUp == \E a \in DOMAIN channels : channels[a].dcOpen

\* C32: an event 'response.created' or 'response.audio.delta' sets the speaking indicator
\* true and 'response.done' sets it false; a disconnectVoice on a connected input leaves
\* the indicator false; and the indicator is never true while no data channel is open
C32_SpeakingIndicator ==
    /\ [][/\ \A a \in DOMAIN channels, type \in SpeakingEventTypes :
               (dcOnMessage(a, type, "") =>
                   isVoiceSpeaking' = (type # "response.done"))
           /\ ((disconnectVoice /\ voice.voiceConnected) => ~isVoiceSpeaking')]_vars
    /\ [](~ChannelUp => ~isVoiceSpeaking)

----------------------------------------------------------------------------
(* The rate limiters *)

Limiters == {"auth", "registration"}

LimiterOf(limiter) ==
    IF limiter = "auth" THEN authRateLimiter ELSE registrationRateLimiter

\* the calls made so far on a limiter for an identifier, and those that returned true
CallsOf(limiter, identifier) ==
    SelectSeq(attemptLog, LAMBDA c : c.limiter = limiter /\ c.identifier = identifier)

AllowedOf(limiter, identifier) ==
    SelectSeq(CallsOf(limiter, identifier), LAMBDA c : c.allowed)

\* what a limiter that is given the calls, and no others, returns for them
RECURSIVE Outcomes(_, _)
Outcomes(this, calls) ==
    IF calls = << >> THEN << >>
    ELSE << canAttempt(this, Head(calls).identifier, Head(calls).at) >>
            \o Outcomes(attempted(this, Head(calls).identifier, Head(calls).at), Tail(calls))

\* C33: for each limiter and each identifier, among the calls of canAttempt that returned
\* true no more than maxAttempts lie within a time interval of length windowMs (5 within
\* 15 minutes for sign-in, 3 within an hour for registration); and what the calls for an
\* identifier return is what a limiter that is never called for another identifier returns
C33_WindowLimit ==
    \A limiter \in Limiters, identifier \in Identifiers :
        LET this == LimiterOf(limiter)
            calls == CallsOf(limiter, identifier)
            allowed == AllowedOf(limiter, identifier) IN
        /\ \A i, j \in DOMAIN allowed :
              (i <= j /\ allowed[j].at - allowed[i].at <= this.windowMs)
                 => j - i + 1 <= this.maxAttempts
        /\ Outcomes(RateLimiter(this.maxAttempts, this.windowMs), calls)
              = [k \in DOMAIN calls |-> calls[k].allowed]

\* five sign-in attempts for one address were allowed within 15 minutes, the sixth was
\* refused, and at that same time an attempt for another address was allowed
C33_Witness ==
    \E identifier, other \in Identifiers :
        /\ identifier # other
        /\ Len(AllowedOf("auth", identifier)) = authRateLimiter.maxAttempts
        /\ Len(CallsOf("auth", identifier)) = authRateLimiter.maxAttempts + 1
        /\ ~CallsOf("auth", identifier)[authRateLimiter.maxAttempts + 1].allowed
        /\ Len(AllowedOf("auth", other)) = 1
        /\ AllowedOf("auth", other)[1].at
              = CallsOf("auth", identifier)[authRateLimiter.maxAttempts + 1].at
        /\ attemptLog[Len(attemptLog)].identifier = other

\* the last call of canAttempt so far
LastCall == attemptLog[Len(attemptLog)]

\* the allowed calls for the identifier of call k on its limiter that were made before k
AllowedBefore(k) ==
    SelectSeq(SubSeq(attemptLog, 1, k - 1),
              LAMBDA c : /\ c.limiter = attemptLog[k].limiter
                         /\ c.identifier = attemptLog[k].identifier
                         /\ c.allowed)

\* a refused attempt does not extend the lockout: a call made more than windowMs after the
\* last allowed call for its identifier is allowed
NotExtended ==
    \A k \in DOMAIN attemptLog :
        LET before == AllowedBefore(k) IN
        (/\ before # << >>
         /\ attemptLog[k].at - before[Len(before)].at
               > LimiterOf(attemptLog[k].limiter).windowMs)
            => attemptLog[k].allowed

\* C38: whenever canAttempt(id) has returned false, getRemainingTime(id) at the time of
\* that call is strictly positive; and a refused attempt does not extend the lockout
C38_DeniedHasRemaining ==
    /\ (attemptLog # << >> /\ ~LastCall.allowed) =>
           getRemainingTime(LimiterOf(LastCall.limiter), LastCall.identifier, LastCall.at) > 0
    /\ NotExtended

----------------------------------------------------------------------------
(* The text input *)

\* the text is empty or consists of white space
Blank(text) == text \in {"", " "}

\* the content of the user message a send of the input carries
Submitted(p) == procs[p].baseMessages[Len(procs[p].baseMessages)].content

\* C34: a call of handleSubmit hands a message to the send path exactly when the text
\* without its surrounding white space is not empty and the isLoading of the tab's
\* domain is false, and what it hands over is the text without that white space; no
\* send ever carries an empty or white-space-only content
C34_SubmitGuard ==
    /\ [][voice'.submits # voice.submits =>
              /\ procs' # procs <=>
                    (~Blank(voice.message) /\ ~aircraftStates[currentAircraftModel].isLoading)
              /\ procs' # procs =>
                    /\ Len(procs') = Len(procs) + 1
                    /\ procs'[Len(procs')].kind = "handleSendMessage"
                    /\ procs'[Len(procs')].aircraftModel = currentAircraftModel
                    /\ LET sent == procs'[Len(procs')].baseMessages
                       IN  sent[Len(sent)].content = "hello"
                    /\ voice.message \in {"hello", " hello "}
                    /\ voice'.message = ""
              /\ procs' = procs =>
                    /\ voice'.message = voice.message
                    /\ queuedStates' = queuedStates]_vars
    /\ [](\A p \in DOMAIN procs : ~Blank(Submitted(p)))

\* a submit of a text with surrounding white space has started a send, and a later
\* submit of white space only has started none
C34_Witness ==
    /\ voice.submits = 2
    /\ Len(procs) = 1
    /\ Submitted(1) = "hello"
    /\ voice.message = " "
    /\ ~aircraftStates[currentAircraftModel].isLoading
    /\ Rendered

\* a send is in flight: its typing placeholder is written, its answer is still awaited
AwaitingAnswer(p) == procs[p].kind \in {"sendMessage", "handleSendMessage"} /\ procs[p].pc = "invoke"

\* C35: while a send is in flight for a domain the isLoading of that domain is true,
\* also when the loadMessages of a switchConversation of the same domain completes
\* in between
C35_LoadingWhileInFlight ==
    \A p \in DOMAIN procs : AwaitingAnswer(p) => queuedStates[procs[p].aircraftModel].isLoading

----------------------------------------------------------------------------
(* sendMessage without a conversation, and without a user *)

\* call p is a sendMessage whose createConversation has failed
CreateFailed(p) ==
    /\ procs[p].kind = "sendMessage"
    /\ procs[p].pc = "rejected"
    /\ procs[p].conversationId = NoConversation

\* no other call works on the domain of call p
AloneInDomain(p) ==
    \A q \in DOMAIN procs : q # p => procs[q].aircraftModel # procs[p].aircraftModel

\* the fields of a session the claim names
Session(state) == <<state.messages, state.currentConversation, state.isLoading>>

HasPlaceholder(p) ==
    \E d \in Domains : \E i \in DOMAIN queuedStates[d].messages :
        queuedStates[d].messages[i] = typingMessage(p)

\* C36: a sendMessage that has to create a conversation and whose creation fails rejects
\* straight from the creation (the answer service is never invoked), writes nothing on
\* the way, shows no typing placeholder, and leaves messages, currentConversation and
\* isLoading of its domain as they were when it was called; a sendMessage called without
\* a user returns at once and changes no state
C36_CreateFailure ==
    /\ [][\A p \in DOMAIN procs :
              (procs[p].kind = "sendMessage" /\ procs[p].pc = "insert"
                 /\ procs'[p].pc \notin {"insert", "list"})
              => /\ procs'[p].pc = "rejected"
                 /\ queuedStates' = queuedStates
                 /\ dbConversations' = dbConversations]_vars
    /\ [][(user = NoUser /\ Len(procs') > Len(procs))
              => /\ procs'[Len(procs')].pc = "done"
                 /\ queuedStates' = queuedStates
                 /\ queuedModel' = queuedModel
                 /\ dbConversations' = dbConversations]_vars
    /\ [](\A p \in DOMAIN procs :
              CreateFailed(p) =>
                  /\ ~HasPlaceholder(p)
                  /\ AloneInDomain(p) =>
                        Session(queuedStates[procs[p].aircraftModel]) = Session(procs[p].snap))

\* one sendMessage was rejected by a failed creation and another returned for want of a
\* user
C36_Witness ==
    /\ Len(procs) = 2
    /\ CreateFailed(1)
    /\ procs[2].kind = "sendMessage"
    /\ procs[2].pc = "done"
    /\ procs[2].answer = ""
    /\ procs[2].aircraftModel # procs[1].aircraftModel
    /\ user = NoUser

----------------------------------------------------------------------------
(* The microphone button *)

\* the input is connected and holds a microphone stream
MicUp == voice.voiceConnected /\ voice.micStreamRef # NoRef

\* C37: while the voice connection is up the micEnabled flag the button shows equals
\* the enabled state of the microphone track, after any sequence of toggleMic,
\* disconnectVoice and connectVoice; and toggleMic closes nothing
C37_MicFlag ==
    /\ [](MicUp => voice.micEnabled = channels[voice.micStreamRef].trackEnabled)
    /\ [][voice'.micEnabled # voice.micEnabled =>
              /\ voice'.voiceConnected = voice.voiceConnected
              /\ <<voice'.pcRef, voice'.dcRef, voice'.micStreamRef>>
                    = <<voice.pcRef, voice.dcRef, voice.micStreamRef>>
              /\ \A a \in DOMAIN channels :
                    <<channels'[a].pcOpen, channels'[a].dcOpen, channels'[a].micLive>>
                      = <<channels[a].pcOpen, channels[a].dcOpen, channels[a].micLive>>]_vars

----------------------------------------------------------------------------
(* The briefing cache *)

BriefingReturned == {"cached", "done", "failed"}

\* an entry younger than 24 hours is in localStorage
FreshEntry(cache) == cache.present /\ now - cache.timestamp < 86400000

\* C39: the briefing cache is written only on the step on which the second request of a
\* call succeeds, after its first request has succeeded, with the two answers, the time
\* and the user of that call; a call that fails at either request stores nothing and
\* leaves isCompleted and isLoading false; isLoading is false whenever every call has
\* returned; and a call of autoFetchBriefing that finds an entry younger than 24 hours
\* makes no request, while one that finds none makes the first request
C39_CacheAfterBoth ==
    /\ [][localStorage' # localStorage /\ localStorage'.present =>
              \E f \in DOMAIN briefing.calls :
                  /\ briefing.calls[f].pc = "notam"
                  /\ briefing'.calls[f].pc = "done"
                  /\ briefing.calls[f].flightPlan # ""
                  /\ localStorage'.flightPlan = briefing.calls[f].flightPlan
                  /\ localStorage'.notamAnalysis # ""
                  /\ localStorage'.timestamp = now
                  /\ localStorage'.userId = briefing.calls[f].userId
                  /\ briefing'.isCompleted]_vars
    /\ [][\A f \in DOMAIN briefing.calls :
              (briefing.calls[f].pc # "failed" /\ briefing'.calls[f].pc = "failed") =>
                  /\ briefing.calls[f].pc \in {"flightPlan", "notam"}
                  /\ localStorage' = localStorage
                  /\ ~briefing'.isCompleted
                  /\ ~briefing'.isLoading]_vars
    /\ []((\A f \in DOMAIN briefing.calls : briefing.calls[f].pc \in BriefingReturned)
             => ~briefing.isLoading)
    /\ [][Len(briefing'.calls) > Len(briefing.calls) =>
              /\ Len(briefing'.calls) = Len(briefing.calls) + 1
              /\ briefing'.calls[Len(briefing'.calls)].pc
                    = (IF FreshEntry(localStorage') THEN "cached" ELSE "flightPlan")]_vars

\* a call has failed at its second request and has stored nothing; a later call has
\* stored its two answers
C39_Witness ==
    /\ Len(briefing.calls) = 2
    /\ briefing.calls[1].pc = "failed"
    /\ briefing.calls[1].flightPlan # ""
    /\ briefing.calls[2].pc = "done"
    /\ localStorage.present
    /\ localStorage.userId = briefing.calls[2].userId
    /\ localStorage.timestamp > 0
    /\ briefing.isCompleted
    /\ ~briefing.isLoading

\* C40: whenever a user is signed in, what getCachedBriefing returns and what
\* checkCacheStatus validates is an entry that this user has fetched
C40_CacheOwner ==
    user # NoUser =>
        /\ getCachedBriefing(localStorage, now) # NoBriefing => localStorage.userId = user
        /\ checkCacheStatus(localStorage, now) => localStorage.userId = user

====
